---- MODULE Spec2Model ----
(***************************************************************************)
(* Bulk-operation engine of accelerator-api-bulk-ts.                        *)
(*                                                                         *)
(* BulkOperationsService.processBatch (src/src/api/bulk.ts) validates the  *)
(* configuration, notifies the progress subscribers and hands the items to *)
(* BatchProcessor (utils/batch.ts, src/unnamed/part_011:67-263), which     *)
(* splits them into batches, dispatches the batches in windows of          *)
(* `concurrency` batches and, in processWithRetry, re-runs the failed      *)
(* items in rounds with exponential backoff.                               *)
(*                                                                         *)
(* One behaviour of the model is one call of one entry point.  The code    *)
(* between two awaits runs without interleaving, so each action below is   *)
(* one such synchronous stretch (or a part of it, in program order).       *)
(* Items are the integers 1..n: the engine never looks inside an item.     *)
(* A message is a sequence of strings standing for their concatenation.    *)
(***************************************************************************)
EXTENDS Integers, Sequences, FiniteSets, TLC

(***************************************************************************)
(* Bounds of the model.                                                    *)
(***************************************************************************)
MaxItems == 3
MaxServiceItems == 2
MaxBatchSize == 2
MaxConcurrency == 2
MaxRetries == 2
MaxCallbacks == 1
MaxSplitItems == 10
MaxSplitBatchSize == 5
MaxDuration == 1
MaxResources == 2
MaxNotifyCallbacks == 2
MaxNotifyItems == 2
MaxPreviewResources == 2
MaxPreviewCount == 101
MaxItemCount == 1001
MaxSubscribers == 3
MaxSubscribeItems == 1
MaxEarlierCalls == 1
MaxRepeatItems == 1
MaxLiveItems == 2
MaxLiveBatchSize == 2
MaxLiveRetries == 2
MaxOrderItems == 3
MaxOrderBatchSize == 2
MaxOrderRetries == 1
MaxTypeCalls == 2
MaxReentrantCallbacks == 3
MaxListLength == 4
MaxRetryItems == 2
MaxRetryBatchSize == 2
MaxRetryRounds == 1

(***************************************************************************)
(* Generic helpers.                                                        *)
(***************************************************************************)
Range(s) == {s[k] : k \in 1..Len(s)}

RECURSIVE Flatten(_)
Flatten(ss) == IF ss = <<>> THEN <<>> ELSE Head(ss) \o Flatten(Tail(ss))

Min(a, b) == IF a <= b THEN a ELSE b

\* items.slice(from, to) with 0-based bounds, 0 <= from
Slice(s, from, to) == SubSeq(s, from + 1, Min(to, Len(s)))

\* [1..n], the item list of length n
ItemList(n) == [k \in 1..n |-> k]

(***************************************************************************)
(* Values an operation can settle with.  Whether an invocation rejects is  *)
(* free; the value it rejects with is fixed by the item and by how many    *)
(* times the operation has been invoked on it, so that the invocations of  *)
(* one item reject with different values.                                  *)
(***************************************************************************)
Ok == [kind |-> "ok", text |-> ""]
ErrorValue(m) == [kind |-> "Error", text |-> m]
NullValue == [kind |-> "null", text |-> ""]
UndefinedValue == [kind |-> "undefined", text |-> ""]
StringValue(s) == [kind |-> "string", text |-> s]

FailureValues ==
  <<ErrorValue("Always fails"), ErrorValue(""), NullValue, StringValue("string error"),
    UndefinedValue>>

\* the value the n-th invocation on the item rejects with
RejectionOf(item, n) == FailureValues[((item + n) % Len(FailureValues)) + 1]

\* mutant: the message property is read whatever the value is
ErrorMessage_MessageOnly(v) == v.text

\* error instanceof Error ? error.message : String(error)
ErrorMessage(v) ==
  IF v.kind = "Error" THEN v.text
  ELSE IF v.kind = "null" THEN "null"
  ELSE IF v.kind = "undefined" THEN "undefined"
  ELSE v.text

(***************************************************************************)
(* BulkOperationsService: configuration.                                   *)
(***************************************************************************)
ConfigFields == {"batchSize", "concurrentBatches", "retryAttempts", "retryDelay",
                 "continueOnError", "dryRun"}

getDefaultConfig ==
  [batchSize |-> 50, concurrentBatches |-> 3, retryAttempts |-> 3,
   retryDelay |-> 1000, continueOnError |-> TRUE, dryRun |-> FALSE]

\* { ...defaults, ...config }
ApplyDefaults(partial) ==
  [f \in ConfigFields |-> IF f \in DOMAIN partial THEN partial[f] ELSE getDefaultConfig[f]]

\* mutant: an item count equal to a bracket limit falls into the next bracket
getOptimalConfig_LimitsExclusive(itemCount) ==
  IF itemCount < 10
  THEN [getDefaultConfig EXCEPT !.batchSize = itemCount, !.concurrentBatches = 1]
  ELSE IF itemCount < 100
  THEN [getDefaultConfig EXCEPT !.batchSize = 10, !.concurrentBatches = 2]
  ELSE IF itemCount < 1000
  THEN [getDefaultConfig EXCEPT !.batchSize = 50, !.concurrentBatches = 3]
  ELSE [getDefaultConfig EXCEPT !.batchSize = 100, !.concurrentBatches = 5]

\* bulk.ts lines 231-263
getOptimalConfig(itemCount) ==
  IF itemCount <= 10
  THEN [getDefaultConfig EXCEPT !.batchSize = itemCount, !.concurrentBatches = 1]
  ELSE IF itemCount <= 100
  THEN [getDefaultConfig EXCEPT !.batchSize = 10, !.concurrentBatches = 2]
  ELSE IF itemCount <= 1000
  THEN [getDefaultConfig EXCEPT !.batchSize = 50, !.concurrentBatches = 3]
  ELSE [getDefaultConfig EXCEPT !.batchSize = 100, !.concurrentBatches = 5]

\* mutant: validation stops at the first error
validateBulkConfig_FirstErrorOnly(config) ==
  LET e == IF "batchSize" \in DOMAIN config /\ config["batchSize"] <= 0
           THEN <<"Batch size must be greater than 0">>
           ELSE IF "concurrentBatches" \in DOMAIN config /\ config["concurrentBatches"] <= 0
           THEN <<"Concurrent batches must be greater than 0">>
           ELSE IF "retryAttempts" \in DOMAIN config /\ config["retryAttempts"] < 0
           THEN <<"Retry attempts cannot be negative">>
           ELSE IF "retryDelay" \in DOMAIN config /\ config["retryDelay"] < 0
           THEN <<"Retry delay cannot be negative">>
           ELSE <<>>
  IN [isValid |-> e = <<>>, errors |-> e, warnings |-> <<>>]

\* mutant: a value equal to a warning threshold is already warned about
validateBulkConfig_WarnsAtThreshold(config) ==
  LET e1 == IF "batchSize" \in DOMAIN config /\ config["batchSize"] <= 0
            THEN <<"Batch size must be greater than 0">> ELSE <<>>
      e2 == IF "concurrentBatches" \in DOMAIN config /\ config["concurrentBatches"] <= 0
            THEN <<"Concurrent batches must be greater than 0">> ELSE <<>>
      e3 == IF "retryAttempts" \in DOMAIN config /\ config["retryAttempts"] < 0
            THEN <<"Retry attempts cannot be negative">> ELSE <<>>
      e4 == IF "retryDelay" \in DOMAIN config /\ config["retryDelay"] < 0
            THEN <<"Retry delay cannot be negative">> ELSE <<>>
      w1 == IF "batchSize" \in DOMAIN config /\ config["batchSize"] >= 1000
            THEN <<"Large batch size may cause performance issues">> ELSE <<>>
      w2 == IF "concurrentBatches" \in DOMAIN config /\ config["concurrentBatches"] >= 10
            THEN <<"High concurrency may overwhelm the API">> ELSE <<>>
      w3 == IF "retryAttempts" \in DOMAIN config /\ config["retryAttempts"] >= 10
            THEN <<"High retry attempts may cause long delays">> ELSE <<>>
      w4 == IF "retryDelay" \in DOMAIN config /\ config["retryDelay"] >= 30000
            THEN <<"Long retry delay may cause timeouts">> ELSE <<>>
      errors == e1 \o e2 \o e3 \o e4
  IN [isValid |-> errors = <<>>, errors |-> errors, warnings |-> w1 \o w2 \o w3 \o w4]

\* validation.ts lines 18-63: a field is checked only when it is not undefined
validateBulkConfig(config) ==
  LET e1 == IF "batchSize" \in DOMAIN config /\ config["batchSize"] <= 0
            THEN <<"Batch size must be greater than 0">> ELSE <<>>
      e2 == IF "concurrentBatches" \in DOMAIN config /\ config["concurrentBatches"] <= 0
            THEN <<"Concurrent batches must be greater than 0">> ELSE <<>>
      e3 == IF "retryAttempts" \in DOMAIN config /\ config["retryAttempts"] < 0
            THEN <<"Retry attempts cannot be negative">> ELSE <<>>
      e4 == IF "retryDelay" \in DOMAIN config /\ config["retryDelay"] < 0
            THEN <<"Retry delay cannot be negative">> ELSE <<>>
      w1 == IF "batchSize" \in DOMAIN config /\ config["batchSize"] > 1000
            THEN <<"Large batch size may cause performance issues">> ELSE <<>>
      w2 == IF "concurrentBatches" \in DOMAIN config /\ config["concurrentBatches"] > 10
            THEN <<"High concurrency may overwhelm the API">> ELSE <<>>
      w3 == IF "retryAttempts" \in DOMAIN config /\ config["retryAttempts"] > 10
            THEN <<"High retry attempts may cause long delays">> ELSE <<>>
      w4 == IF "retryDelay" \in DOMAIN config /\ config["retryDelay"] > 30000
            THEN <<"Long retry delay may cause timeouts">> ELSE <<>>
      errors == e1 \o e2 \o e3 \o e4
  IN [isValid |-> errors = <<>>, errors |-> errors, warnings |-> w1 \o w2 \o w3 \o w4]

\* errors.join(', ')
RECURSIVE Join(_)
Join(ss) ==
  IF ss = <<>> THEN <<>>
  ELSE IF Len(ss) = 1 THEN <<ss[1]>>
  ELSE <<ss[1], ", ">> \o Join(Tail(ss))

InvalidConfigurationMessage(errors) == <<"Invalid configuration: ">> \o Join(errors)

(***************************************************************************)
(* BatchProcessor: pure parts.                                             *)
(***************************************************************************)
\* mutant: the loop stops before a batch shorter than batchSize
RECURSIVE createBatchesFrom_DropsShortBatch(_, _, _)
createBatchesFrom_DropsShortBatch(its, b, i) ==
  IF i + b <= Len(its)
  THEN <<Slice(its, i, i + b)>> \o createBatchesFrom_DropsShortBatch(its, b, i + b)
  ELSE <<>>

\* for (i = 0; i < items.length; i += batchSize) batches.push(items.slice(i, i + batchSize))
RECURSIVE createBatchesFrom(_, _, _)
createBatchesFrom(its, batchSize, i) ==
  IF i < Len(its)
  THEN <<Slice(its, i, i + batchSize)>> \o createBatchesFrom(its, batchSize, i + batchSize)
  ELSE <<>>

createBatches(its, batchSize) == createBatchesFrom(its, batchSize, 0)

\* mutant: the window takes one batch more than the concurrency
WindowOf_OneMore(nBatches, i, c) == (i + 1)..Min(i + c + 1, nBatches)

\* indices (1-based) of batches.slice(i, i + concurrency)
WindowOf(nBatches, i, concurrency) == (i + 1)..Min(i + concurrency, nBatches)

\* mutant: the delay does not grow
BackoffDelay_Constant(d, k) == d

\* retryDelay * Math.pow(2, attempt)
BackoffDelay(retryDelay, attempt) == retryDelay * (2 ^ attempt)

\* mutant: the last attempt is not recognised
RetryDone_IgnoresLastAttempt(nFailed, k, r) == nFailed = 0

\* result.failed.length === 0 || attempt === retries
RetryDone(nFailed, attempt, retries) == nFailed = 0 \/ attempt = retries

\* mutant: an empty input counts as a total failure
IsTotalFailure_CountsEmptyInput(allSucc, allFail, its) ==
  Len(allSucc) = 0 /\ Len(allFail) = Len(its)

\* mutant: the call throws as soon as one item has failed for good
IsTotalFailure_AnyFailure(allSucc, allFail, its) ==
  Len(allFail) > 0

\* allSuccessful.length === 0 && allFailed.length === items.length && items.length > 0
IsTotalFailure(allSucc, allFail, its) ==
  Len(allSucc) = 0 /\ Len(allFail) = Len(its) /\ Len(its) > 0

\* mutant: the first failure is reported instead of the last
LastError_First(allFail) ==
  IF allFail = <<>> \/ allFail[1].error = ""
  THEN "All items failed"
  ELSE allFail[1].error

\* allFailed[allFailed.length - 1]?.error || 'All items failed'
LastError(allFail) ==
  IF allFail = <<>> \/ allFail[Len(allFail)].error = ""
  THEN "All items failed"
  ELSE allFail[Len(allFail)].error

(***************************************************************************)
(* Inputs of a call.                                                       *)
(***************************************************************************)
\* the caller's Partial<BulkOperationConfig>: omitted, retry fields only, a dry
\* run, or all of the numeric fields and continueOnError
CallerConfigs ==
  {[f \in {} |-> 0]}
  \cup [retryAttempts : {0}, continueOnError : BOOLEAN]
  \cup [retryAttempts : {0}, dryRun : {TRUE}]
  \cup [batchSize : 0..MaxBatchSize, concurrentBatches : 0..MaxConcurrency,
        retryAttempts : (-1)..MaxRetries, retryDelay : {-1, 10},
        continueOnError : BOOLEAN]

\* tests/utils/batch.test.ts "should respect concurrency limits"
ConcurrencyTest == [items |-> ItemList(6), batchSize |-> 2, concurrency |-> 1]

\* tests/utils/batch.test.ts "should handle partial failures"
PartialFailureTest == [items |-> ItemList(5), batchSize |-> 3, concurrency |-> 2]

ProcessorCalls ==
  [items : {ItemList(n) : n \in 0..MaxItems}, batchSize : 1..MaxBatchSize,
   concurrency : 1..MaxConcurrency]

ProcessCalls == ProcessorCalls \cup {ConcurrencyTest, PartialFailureTest}

Callbacks == {"cb1"}

\* the numeric fields validateBulkConfig looks at
NumericFields == {"batchSize", "concurrentBatches", "retryAttempts", "retryDelay"}

\* per field, values on both sides of the limits validateBulkConfig compares with
BoundaryValues ==
  [batchSize |-> {-1, 0, 1, 1000, 1001}, concurrentBatches |-> {-1, 0, 1, 10, 11},
   retryAttempts |-> {-1, 0, 10, 11}, retryDelay |-> {-1, 0, 30000, 30001}]

\* configs in which each numeric field is absent or has one of its boundary values
BoundaryConfigs ==
  UNION {{c \in [S -> UNION {BoundaryValues[f] : f \in NumericFields}] :
             \A f \in S : c[f] \in BoundaryValues[f]} : S \in SUBSET NumericFields}

(***************************************************************************)
(* State.                                                                  *)
(***************************************************************************)
VARIABLES
  progressCallbacks,  \* BulkOperationsService.progressCallbacks
  unsubscribed,       \* history: callbacks whose last registration call removed them
  operationIds,       \* history: operationId of the results of the earlier calls
  resourceType,       \* GenericBulkOperations.resourceType
  typeCalls,          \* the bulkUpdateByType / bulkUpdate calls made on the instance:
                      \* per call its arguments, its originalType and its position
  loopArray,          \* notifyProgress: the array object the for-of loop iterates
  loopDetached,       \* that array is no longer this.progressCallbacks
  nextIndex,          \* notifyProgress: the array iterator's next index, 0-based
  atStart,            \* history: progressCallbacks when notifyProgress was entered
  pc,                 \* position of the call
  entry,              \* entry point called: "processBatch", "processWithRetry", "process"
  items,              \* the items argument
  fullConfig,         \* processBatch: fullConfig
  batchSize,          \* BatchProcessor.batchSize
  concurrency,        \* BatchProcessor.concurrency
  retries,            \* processWithRetry: retries
  retryDelay,         \* processWithRetry: retryDelay
  inRetry,            \* process was called by processWithRetry
  attempt,            \* processWithRetry: attempt
  remainingItems,     \* processWithRetry: remainingItems
  allSuccessful,      \* processWithRetry: allSuccessful
  allFailed,          \* processWithRetry: allFailed
  batches,            \* process: batches
  i,                  \* process: loop index i
  successful,         \* process: successful
  failed,             \* process: failed
  batchSuccessful,    \* processBatch (per batch of the window): successful
  batchFailed,        \* processBatch (per batch of the window): failed
  inflight,           \* items whose operation has started and not settled
  bpStatus,           \* how the BatchProcessor call ended: "none", "returned", "thrown"
  bpResult,           \* the BatchResult it returned
  bpError,            \* message of the Error it threw
  progress,           \* processBatch: progress
  status,             \* how processBatch ended: "none", "returned", "thrown"
  result,             \* the BulkResult it returned
  thrown,             \* message of the error it threw
  started,            \* history: per item, the rounds in which the operation was invoked on it
  hist,               \* history: per item, the outcomes of its settled invocations
  lastValue,          \* history: per item, the value of its last settled invocation
  delays,             \* history: the delays slept, in order
  roundFailed,        \* history: number of failed items of each completed process call
  notifications,      \* history: <<callback, progress>> deliveries, in order
  warned,             \* history: callbacks whose error notifyProgress caught and logged
  caller,             \* public method called on top: "none" when processBatch or the
                      \* BatchProcessor is called directly
  argument,           \* the arguments of that method, and what its abstract methods report
  resources,          \* bulkUpdate, bulkDelete: resources
  returned            \* value returned by a method that does not return a BulkResult

genericVars == <<resourceType, typeCalls>>
loopVars == <<loopArray, loopDetached, nextIndex, atStart>>
instanceVars == <<progressCallbacks, unsubscribed, operationIds, genericVars, loopVars>>
configVars == <<entry, items, fullConfig, batchSize, concurrency, retries, retryDelay, inRetry>>
retryVars == <<attempt, remainingItems, allSuccessful, allFailed>>
processVars == <<batches, i, successful, failed>>
windowVars == <<batchSuccessful, batchFailed, inflight>>
bpVars == <<bpStatus, bpResult, bpError>>
serviceVars == <<progress, status, result, thrown, notifications, warned>>
opVars == <<started, hist, lastValue>>
retryHist == <<delays, roundFailed>>
callVars == <<caller, argument, resources, returned>>

vars == <<instanceVars, pc, configVars, retryVars, processVars, windowVars,
          bpVars, serviceVars, opVars, retryHist, callVars>>

NoProgress == [total |-> 0, completed |-> 0, failed |-> 0, percentage |-> 0,
               currentBatch |-> 0, totalBatches |-> 0, successRate |-> 0]
NoResult == [operationId |-> "none", total |-> 0, successful |-> 0, failed |-> 0,
             errors |-> <<>>, duration |-> 0]
NoBatchResult == [successful |-> <<>>, failed |-> <<>>, batchNumber |-> 0]
NoArgument == [none |-> TRUE]
NoValue == [none |-> TRUE]

\* tests/operations/generic.test.ts line 14: new GenericBulkOperations(mockClient, 'servers')
ConstructedType == "servers"

Init ==
  /\ progressCallbacks = <<>>
  /\ unsubscribed = {}
  /\ operationIds = <<>>
  /\ resourceType = ConstructedType
  /\ typeCalls = <<>>
  /\ loopArray = <<>> /\ loopDetached = FALSE /\ nextIndex = 0 /\ atStart = <<>>
  /\ pc = "idle"
  /\ entry = "none"
  /\ items = <<>>
  /\ fullConfig = getDefaultConfig
  /\ batchSize = 0 /\ concurrency = 0 /\ retries = 0 /\ retryDelay = 0
  /\ inRetry = FALSE
  /\ attempt = 0 /\ remainingItems = <<>> /\ allSuccessful = <<>> /\ allFailed = <<>>
  /\ batches = <<>> /\ i = 0 /\ successful = <<>> /\ failed = <<>>
  /\ batchSuccessful = <<>> /\ batchFailed = <<>> /\ inflight = {}
  /\ bpStatus = "none" /\ bpResult = NoBatchResult /\ bpError = ""
  /\ progress = NoProgress
  /\ status = "none" /\ result = NoResult /\ thrown = <<>>
  /\ started = <<>> /\ hist = <<>> /\ lastValue = <<>>
  /\ delays = <<>> /\ roundFailed = <<>>
  /\ notifications = <<>> /\ warned = <<>>
  /\ caller = "none" /\ argument = NoArgument /\ resources = <<>> /\ returned = NoValue

(***************************************************************************)
(* BulkOperationsService: subscriber registration.                         *)
(***************************************************************************)
\* Array.prototype.indexOf, 1-based; 0 when absent
IndexOf(s, x) ==
  IF \E k \in 1..Len(s) : s[k] = x
  THEN CHOOSE k \in 1..Len(s) : s[k] = x /\ \A j \in 1..(k - 1) : s[j] # x
  ELSE 0

\* splice(index, 1)
RemoveAt(s, k) == SubSeq(s, 1, k - 1) \o SubSeq(s, k + 1, Len(s))

trackProgress(cb) ==
  /\ pc = "idle"
  /\ Len(progressCallbacks) < MaxCallbacks
  /\ progressCallbacks' = Append(progressCallbacks, cb)
  /\ unsubscribed' = unsubscribed \ {cb}
  /\ UNCHANGED <<operationIds, genericVars, loopVars, callVars, pc, configVars, retryVars,
                 processVars, windowVars, bpVars, serviceVars, opVars, retryHist>>

removeProgressCallback(cb) ==
  /\ pc = "idle"
  /\ progressCallbacks' =
       IF IndexOf(progressCallbacks, cb) > 0
       THEN RemoveAt(progressCallbacks, IndexOf(progressCallbacks, cb))
       ELSE progressCallbacks
  /\ unsubscribed' = unsubscribed \cup {cb}
  /\ UNCHANGED <<operationIds, genericVars, loopVars, callVars, pc, configVars, retryVars,
                 processVars, windowVars, bpVars, serviceVars, opVars, retryHist>>

clearProgressCallbacks ==
  /\ pc = "idle"
  /\ progressCallbacks' = <<>>
  /\ unsubscribed' = unsubscribed \cup Range(progressCallbacks)
  /\ UNCHANGED <<operationIds, genericVars, loopVars, callVars, pc, configVars, retryVars,
                 processVars, windowVars, bpVars, serviceVars, opVars, retryHist>>

\* callbacks that throw an Error whenever they are called
ThrowingCallbacks == {"cbThrows"}

\* mutant: an error thrown by a callback ends the loop over the callbacks
Deliveries_StopAtThrow(cbs, p) ==
  LET stop == IF \E k \in 1..Len(cbs) : cbs[k] \in ThrowingCallbacks
              THEN CHOOSE k \in 1..Len(cbs) :
                     /\ cbs[k] \in ThrowingCallbacks
                     /\ \A j \in 1..(k - 1) : cbs[j] \notin ThrowingCallbacks
              ELSE Len(cbs)
  IN [k \in 1..stop |-> [callback |-> cbs[k], progress |-> p]]

\* notifyProgress lines 199-206: every registered callback is called with the
\* progress object, each call in a try block of its own
Deliveries(cbs, p) == [k \in 1..Len(cbs) |-> [callback |-> cbs[k], progress |-> p]]

\* notifyProgress lines 202-204: the errors caught and logged, one per call that threw
CaughtErrors(cbs) == SelectSeq(cbs, LAMBDA cb : cb \in ThrowingCallbacks)

(***************************************************************************)
(* BulkOperationsService.processBatch: up to the BatchProcessor call.      *)
(***************************************************************************)
\* Math.round(NaN): a number that equals no percentage; the percentages
\* Math.round computes from counts are never negative
NaN == -1

\* Math.ceil(a / b), b > 0
CeilDiv(a, b) == (a + b - 1) \div b

\* Math.round((a / b) * 100)
RoundPercent(a, b) == IF b = 0 THEN NaN ELSE (200 * a + b) \div (2 * b)

InitialProgress(its, config) ==
  [total |-> Len(its), completed |-> 0, failed |-> 0, percentage |-> 0,
   currentBatch |-> 0, totalBatches |-> CeilDiv(Len(its), config.batchSize),
   successRate |-> 0]

FreshOps(its) ==
  /\ started' = [x \in 1..Len(its) |-> <<>>]
  /\ hist' = [x \in 1..Len(its) |-> <<>>]
  /\ lastValue' = [x \in 1..Len(its) |-> Ok]

\* lines 19-36: the call, the defaults applied
processBatchCall(its, partial) ==
  /\ pc = "idle"
  /\ entry' = "processBatch"
  /\ items' = its
  /\ fullConfig' = ApplyDefaults(partial)
  /\ FreshOps(its)
  /\ pc' = "validate"
  /\ UNCHANGED <<callVars, instanceVars, batchSize, concurrency, retries, retryDelay, inRetry,
                 retryVars, processVars, windowVars, bpVars, serviceVars, retryHist>>

\* lines 38-46
validateConfig ==
  /\ pc = "validate"
  /\ LET v == validateBulkConfig(fullConfig)
     IN IF ~v.isValid
        THEN /\ status' = "thrown"
             /\ thrown' = InvalidConfigurationMessage(v.errors)
             /\ pc' = "done"
        ELSE /\ pc' = "notifyInitial"
             /\ UNCHANGED <<status, thrown>>
  /\ UNCHANGED <<callVars, instanceVars, configVars, retryVars, processVars, windowVars, bpVars,
                 progress, result, notifications, warned, opVars, retryHist>>

\* lines 50-88: initial progress, the BatchProcessor, the call of
\* processWithRetry (lines 135-138 of it) or of process
notifyInitial ==
  /\ pc = "notifyInitial"
  /\ progress' = InitialProgress(items, fullConfig)
  /\ notifications' = notifications \o Deliveries(progressCallbacks, progress')
  /\ warned' = warned \o CaughtErrors(progressCallbacks)
  /\ batchSize' = fullConfig.batchSize
  /\ concurrency' = fullConfig.concurrentBatches
  /\ IF fullConfig.retryAttempts > 0
     THEN /\ inRetry' = TRUE
          /\ retries' = fullConfig.retryAttempts
          /\ retryDelay' = fullConfig.retryDelay
          /\ attempt' = 0
          /\ remainingItems' = items
          /\ allSuccessful' = <<>>
          /\ allFailed' = <<>>
          /\ pc' = "retryLoop"
     ELSE /\ inRetry' = FALSE
          /\ pc' = "processStart"
          /\ UNCHANGED <<retries, retryDelay, retryVars>>
  /\ UNCHANGED <<callVars, instanceVars, entry, items, fullConfig, processVars, windowVars,
                 bpVars, status, result, thrown, opVars, retryHist>>

(***************************************************************************)
(* BatchProcessor used directly, without a service: no subscriber is       *)
(* involved, and the call is taken from the state after construction.      *)
(***************************************************************************)
\* new BatchProcessor(b, c).processWithRetry(items, operation, r, d), lines 129-138
processWithRetryCall(call, r, d) ==
  /\ pc = "idle"
  /\ progressCallbacks = <<>>
  /\ entry' = "processWithRetry"
  /\ items' = call.items
  /\ batchSize' = call.batchSize
  /\ concurrency' = call.concurrency
  /\ retries' = r
  /\ retryDelay' = d
  /\ inRetry' = TRUE
  /\ attempt' = 0
  /\ remainingItems' = call.items
  /\ allSuccessful' = <<>>
  /\ allFailed' = <<>>
  /\ FreshOps(call.items)
  /\ pc' = "retryLoop"
  /\ UNCHANGED <<callVars, instanceVars, fullConfig, processVars, windowVars, bpVars,
                 serviceVars, retryHist>>

\* new BatchProcessor(b, c).process(items, operation)
processCall(call) ==
  /\ pc = "idle"
  /\ progressCallbacks = <<>>
  /\ entry' = "process"
  /\ items' = call.items
  /\ batchSize' = call.batchSize
  /\ concurrency' = call.concurrency
  /\ inRetry' = FALSE
  /\ FreshOps(call.items)
  /\ pc' = "processStart"
  /\ UNCHANGED <<callVars, instanceVars, fullConfig, retries, retryDelay, retryVars,
                 processVars, windowVars, bpVars, serviceVars, retryHist>>

(***************************************************************************)
(* BatchProcessor.process and processBatch.                                *)
(***************************************************************************)
\* number of invocations of the operation on the item so far
Calls(item) == Len(started[item])

\* the items argument of the running process call
ProcessItems == IF inRetry THEN remainingItems ELSE items

\* index of the batch of the current partition that holds the item
BatchOf(item) == CHOOSE k \in 1..Len(batches) : item \in Range(batches[k])

\* the batches of the window, in order, mapped through a per-batch list
InWindowOrder(perBatch, w) == [j \in 1..Cardinality(w) |-> perBatch[i + j]]

\* processWithRetry line 140-142: while (attempt <= retries) process(remainingItems)
retryLoop ==
  /\ pc = "retryLoop"
  /\ pc' = IF attempt <= retries THEN "processStart" ELSE "retryEnd"
  /\ UNCHANGED <<callVars, instanceVars, configVars, retryVars, processVars, windowVars,
                 bpVars, serviceVars, opVars, retryHist>>

\* process lines 87-94
processStart ==
  /\ pc = "processStart"
  /\ batches' = createBatches(ProcessItems, batchSize)
  /\ i' = 0
  /\ successful' = <<>>
  /\ failed' = <<>>
  /\ pc' = "processLoop"
  /\ UNCHANGED <<callVars, instanceVars, configVars, retryVars, windowVars, bpVars,
                 serviceVars, opVars, retryHist>>

\* mutant: only the first batch of the window is started
dispatchWindow_FirstBatchOnly ==
  /\ pc = "processLoop"
  /\ i < Len(batches)
  /\ LET invoked == Range(batches[i + 1])
     IN /\ inflight' = invoked
        /\ started' = [x \in DOMAIN started |->
                         IF x \in invoked THEN Append(started[x], attempt) ELSE started[x]]
  /\ batchSuccessful' = [k \in 1..Len(batches) |-> <<>>]
  /\ batchFailed' = [k \in 1..Len(batches) |-> <<>>]
  /\ pc' = "await"
  /\ UNCHANGED <<callVars, instanceVars, configVars, retryVars, processVars, bpVars,
                 serviceVars, hist, lastValue, retryHist>>

\* process lines 97-103 and processBatch lines 203-218: the batches of the
\* window are started, and each starts the operation on all of its items
dispatchWindow ==
  /\ pc = "processLoop"
  /\ i < Len(batches)
  /\ LET w == WindowOf(Len(batches), i, concurrency)
         invoked == UNION {Range(batches[k]) : k \in w}
     IN /\ inflight' = invoked
        /\ started' = [x \in DOMAIN started |->
                         IF x \in invoked THEN Append(started[x], attempt) ELSE started[x]]
  /\ batchSuccessful' = [k \in 1..Len(batches) |-> <<>>]
  /\ batchFailed' = [k \in 1..Len(batches) |-> <<>>]
  /\ pc' = "await"
  /\ UNCHANGED <<callVars, instanceVars, configVars, retryVars, processVars, bpVars,
                 serviceVars, hist, lastValue, retryHist>>

\* processBatch lines 209-218: the operation on one item settles, resolving
\* (ok) or rejecting with a value
settle(item, ok) ==
  /\ pc = "await"
  /\ item \in inflight
  /\ LET v == IF ok THEN Ok ELSE RejectionOf(item, Calls(item)) IN
     /\ IF ok
        THEN /\ batchSuccessful' = [batchSuccessful EXCEPT ![BatchOf(item)] = Append(@, item)]
             /\ UNCHANGED batchFailed
        ELSE /\ batchFailed' = [batchFailed EXCEPT ![BatchOf(item)] =
                                  Append(@, [item |-> item, error |-> ErrorMessage(v)])]
             /\ UNCHANGED batchSuccessful
     /\ lastValue' = [lastValue EXCEPT ![item] = v]
  /\ inflight' = inflight \ {item}
  /\ hist' = [hist EXCEPT ![item] = Append(@, ok)]
  /\ UNCHANGED <<callVars, instanceVars, pc, configVars, retryVars, processVars, bpVars,
                 serviceVars, started, retryHist>>

\* process lines 105-112: Promise.all of the window resolved, results aggregated
awaitWindow ==
  /\ pc = "await"
  /\ inflight = {}
  /\ LET w == WindowOf(Len(batches), i, concurrency)
     IN /\ successful' = successful \o Flatten(InWindowOrder(batchSuccessful, w))
        /\ failed' = failed \o Flatten(InWindowOrder(batchFailed, w))
  /\ i' = i + concurrency
  /\ pc' = "processLoop"
  /\ UNCHANGED <<callVars, instanceVars, configVars, retryVars, batches, windowVars, bpVars,
                 serviceVars, opVars, retryHist>>

\* process lines 114-123, returning to a direct caller or to processBatch of the service
processReturn ==
  /\ pc = "processLoop"
  /\ ~(i < Len(batches))
  /\ ~inRetry
  /\ bpStatus' = "returned"
  /\ bpResult' = [successful |-> successful, failed |-> failed, batchNumber |-> Len(batches)]
  /\ pc' = IF entry = "processBatch" THEN "serviceEnd" ELSE "done"
  /\ UNCHANGED <<callVars, instanceVars, configVars, retryVars, processVars, windowVars,
                 bpError, serviceVars, opVars, retryHist>>

(***************************************************************************)
(* BatchProcessor.processWithRetry.                                        *)
(* process catches every failure of the operation (processBatch lines      *)
(* 210-217), so the catch block of lines 163-177 is never entered.         *)
(***************************************************************************)
\* mutant: the whole round is retried, not only its failed items
FailedItems_WholeRound(fs) == remainingItems

FailedItems(fs) == [k \in 1..Len(fs) |-> fs[k].item]

\* mutant: the failures of every round are kept, not only those of the last
retryCollect_KeepsEveryFailure ==
  /\ pc = "processLoop"
  /\ ~(i < Len(batches))
  /\ inRetry
  /\ allSuccessful' = allSuccessful \o successful
  /\ roundFailed' = Append(roundFailed, Len(failed))
  /\ allFailed' = allFailed \o failed
  /\ IF RetryDone(Len(failed), attempt, retries)
     THEN /\ pc' = "retryEnd"
          /\ UNCHANGED remainingItems
     ELSE /\ remainingItems' = FailedItems(failed)
          /\ pc' = "retryDelay"
  /\ UNCHANGED <<callVars, instanceVars, configVars, attempt, processVars, windowVars, bpVars,
                 serviceVars, opVars, delays>>

\* lines 142-156: process returned to processWithRetry
retryCollect ==
  /\ pc = "processLoop"
  /\ ~(i < Len(batches))
  /\ inRetry
  /\ allSuccessful' = allSuccessful \o successful
  /\ roundFailed' = Append(roundFailed, Len(failed))
  /\ IF RetryDone(Len(failed), attempt, retries)
     THEN /\ allFailed' = allFailed \o failed
          /\ pc' = "retryEnd"
          /\ UNCHANGED remainingItems
     ELSE /\ remainingItems' = FailedItems(failed)
          /\ pc' = "retryDelay"
          /\ UNCHANGED allFailed
  /\ UNCHANGED <<callVars, instanceVars, configVars, attempt, processVars, windowVars, bpVars,
                 serviceVars, opVars, delays>>

\* mutant: the attempt counter is not advanced
retryBackoff_KeepsAttempt ==
  /\ pc = "retryDelay"
  /\ delays' = IF attempt < retries
               THEN Append(delays, BackoffDelay(retryDelay, attempt))
               ELSE delays
  /\ pc' = "retryLoop"
  /\ UNCHANGED <<callVars, instanceVars, configVars, retryVars, processVars, windowVars,
                 bpVars, serviceVars, opVars, roundFailed>>

\* lines 158-162: the backoff delay elapses
retryBackoff ==
  /\ pc = "retryDelay"
  /\ delays' = IF attempt < retries
               THEN Append(delays, BackoffDelay(retryDelay, attempt))
               ELSE delays
  /\ attempt' = attempt + 1
  /\ pc' = "retryLoop"
  /\ UNCHANGED <<callVars, instanceVars, configVars, remainingItems, allSuccessful, allFailed,
                 processVars, windowVars, bpVars, serviceVars, opVars, roundFailed>>

\* lines 180-192
retryEnd ==
  /\ pc = "retryEnd"
  /\ IF IsTotalFailure(allSuccessful, allFailed, items)
     THEN /\ bpStatus' = "thrown"
          /\ bpError' = LastError(allFailed)
          /\ UNCHANGED bpResult
     ELSE /\ bpStatus' = "returned"
          /\ bpResult' = [successful |-> allSuccessful, failed |-> allFailed,
                          batchNumber |-> CeilDiv(Len(items), batchSize)]
          /\ UNCHANGED bpError
  /\ pc' = IF entry = "processBatch" THEN "serviceEnd" ELSE "done"
  /\ UNCHANGED <<callVars, instanceVars, configVars, retryVars, processVars, windowVars,
                 serviceVars, opVars, retryHist>>

(***************************************************************************)
(* BulkOperationsService.processBatch: after the BatchProcessor call.      *)
(***************************************************************************)
\* mutant: every item of the run is counted as failed
FinalProgress_FailedIsTotal(p, br) ==
  [p EXCEPT !.completed = Len(br.successful),
            !.failed = p.total,
            !.percentage = RoundPercent(Len(br.successful), p.total),
            !.successRate = IF p.total > 0 THEN RoundPercent(Len(br.successful), p.total)
                            ELSE 0]

\* lines 91-94
FinalProgress(p, br) ==
  [p EXCEPT !.completed = Len(br.successful),
            !.failed = Len(br.failed),
            !.percentage = RoundPercent(Len(br.successful), p.total),
            !.successRate = IF p.total > 0 THEN RoundPercent(Len(br.successful), p.total)
                            ELSE 0]

\* lines 119-122
AllFailedProgress(p, its) ==
  [p EXCEPT !.failed = Len(its), !.completed = 0, !.percentage = 100, !.successRate = 0]

\* lines 97-103
BulkErrors(fs) == [k \in 1..Len(fs) |-> [item |-> fs[k].item, error |-> fs[k].error]]

\* lines 113-117
AllFailedErrors(its, message) == [k \in 1..Len(its) |-> [item |-> its[k], error |-> message]]

\* Date.now() - startTime (lines 110, 139): what the clock measured
Durations == 0..MaxDuration

\* lines 144-151; operationId is the uuidv4() of line 24
BulkResultOf(its, br, duration) ==
  [operationId |-> "uuid", total |-> Len(its), successful |-> Len(br.successful),
   failed |-> Len(br.failed), errors |-> BulkErrors(br.failed), duration |-> duration]

\* lines 125-132
AllFailedResult(its, message, duration) ==
  [operationId |-> "uuid", total |-> Len(its), successful |-> 0, failed |-> Len(its),
   errors |-> AllFailedErrors(its, message), duration |-> duration]

\* mutant: continueOnError is not consulted
FailsOnError_IgnoresFlag(config, nFailed) == nFailed > 0

\* mutant: remaining failures are never escalated
FailsOnError_Never(config, nFailed) == FALSE

\* line 154
FailsOnError(config, nFailed) == ~config.continueOnError /\ nFailed > 0

\* line 155
BulkFailedMessage(nFailed) ==
  <<"Bulk operation failed: ", ToString(nFailed), " items failed">>

\* lines 90-103 and 139-160: the BatchProcessor call returned
serviceComplete ==
  /\ pc = "serviceEnd"
  /\ bpStatus = "returned"
  /\ pc' = "done"
  /\ progress' = FinalProgress(progress, bpResult)
  /\ notifications' = notifications \o Deliveries(progressCallbacks, progress')
  /\ warned' = warned \o CaughtErrors(progressCallbacks)
  /\ IF FailsOnError(fullConfig, Len(bpResult.failed))
     THEN /\ status' = "thrown"
          /\ thrown' = BulkFailedMessage(Len(bpResult.failed))
          /\ UNCHANGED result
     ELSE /\ status' = "returned"
          /\ \E duration \in Durations : result' = BulkResultOf(items, bpResult, duration)
          /\ UNCHANGED thrown
  /\ UNCHANGED <<callVars, instanceVars, configVars, retryVars, processVars, windowVars,
                 bpVars, opVars, retryHist>>

\* lines 105-137: the BatchProcessor call threw
serviceCatch ==
  /\ pc = "serviceEnd"
  /\ bpStatus = "thrown"
  /\ IF fullConfig.continueOnError
     THEN /\ progress' = AllFailedProgress(progress, items)
          /\ notifications' = notifications \o Deliveries(progressCallbacks, progress')
          /\ warned' = warned \o CaughtErrors(progressCallbacks)
          /\ status' = "returned"
          /\ \E duration \in Durations : result' = AllFailedResult(items, bpError, duration)
          /\ UNCHANGED thrown
     ELSE /\ status' = "thrown"
          /\ thrown' = <<bpError>>
          /\ UNCHANGED <<progress, notifications, warned, result>>
  /\ pc' = "done"
  /\ UNCHANGED <<callVars, instanceVars, configVars, retryVars, processVars, windowVars,
                 bpVars, opVars, retryHist>>

(***************************************************************************)
(* BaseBulkOperation (src/unnamed/part_011:264-514) and                    *)
(* GenericBulkOperations.bulkDelete (src/unnamed/part_012:203-240).        *)
(* A resource is a function from its own field names to strings; updates   *)
(* is the sequence of the update object's entries, in Object.keys order.   *)
(* validateFilter, validateUpdates and getResources are abstract: what     *)
(* they report is part of the call.                                        *)
(***************************************************************************)
\* the value of a property that is absent
Undefined == "(undefined)"

ServerA == [id |-> "a", status |-> "active"]
ServerB == [_id |-> "b", status |-> "inactive", environment |-> "prod"]
ServerC == [id |-> "", uuid |-> "c", environment |-> "prod"]
ServerD == [name |-> "d"]
Servers == <<ServerA, ServerB, ServerC, ServerD>>

\* the n resources a getResources call finds
FoundResources(n) == [k \in 1..n |-> Servers[((k - 1) % Len(Servers)) + 1]]

UpdateSets ==
  {<<[key |-> "status", value |-> "active"]>>,
   <<[key |-> "status", value |-> "active"], [key |-> "environment", value |-> "prod"]>>,
   <<[key |-> "owner", value |-> Undefined]>>}

\* results of validateFilter and validateUpdates
FilterValidations ==
  {[isValid |-> TRUE, errors |-> <<>>, warnings |-> <<"Empty filter will match all resources">>],
   [isValid |-> FALSE, errors |-> <<"ID filter must be a non-empty string",
                                    "Name filter must be a non-empty string">>,
    warnings |-> <<>>]}

UpdatesValidations ==
  {[isValid |-> TRUE, errors |-> <<>>, warnings |-> <<>>],
   [isValid |-> TRUE, errors |-> <<>>, warnings |-> <<"Updates warning">>],
   [isValid |-> FALSE, errors |-> <<"Updates object cannot be empty">>, warnings |-> <<>>]}

\* getResources resolves with the resources found or rejects
GetResourcesOutcomes ==
  {[ok |-> TRUE, resources |-> FoundResources(n)] : n \in 0..MaxResources}
  \cup {[ok |-> FALSE, resources |-> <<>>]}

\* the config argument of bulkUpdate and bulkDelete: omitted, or given
OperationConfigs ==
  {[f \in {} |-> 0]}
  \cup [dryRun : BOOLEAN, retryAttempts : {0}, continueOnError : {FALSE}]
  \cup [dryRun : {TRUE}, batchSize : {0}]

\* resourceAny[field]
Get(resource, field) == IF field \in DOMAIN resource THEN resource[field] ELSE Undefined

\* a || b on string-or-undefined operands
OrElse(a, b) == IF a # Undefined /\ a # "" THEN a ELSE b

\* lines 457-460
getResourceId(resource) ==
  OrElse(OrElse(Get(resource, "id"), Get(resource, "_id")), Get(resource, "uuid"))

\* mutant: every requested field is reported, owned or not
extractRelevantFields_AllFields(resource, updates) ==
  [f \in {updates[k].key : k \in 1..Len(updates)} |-> Get(resource, f)]

\* lines 465-476, called with Object.keys(updates)
extractRelevantFields(resource, updates) ==
  [f \in {updates[k].key : k \in 1..Len(updates)} \cap DOMAIN resource |-> resource[f]]

\* `${value}` of a string-or-undefined value
TemplateText(value) == IF value = Undefined THEN "undefined" ELSE value

\* line 489
AlreadySetMessage(key, value) == <<key, " is already set to '", TemplateText(value), "'">>

\* lines 482-492: the warnings pushed for one resource
validateResourceUpdate(resource, updates) ==
  LET same == SelectSeq(updates, LAMBDA u : Get(resource, u.key) = u.value)
  IN [k \in 1..Len(same) |-> AlreadySetMessage(same[k].key, same[k].value)]

\* lines 425-438
PreviewEntry(resource, updates) ==
  LET base == [id |-> getResourceId(resource),
               currentValues |-> extractRelevantFields(resource, updates),
               proposedChanges |-> updates]
      itemWarnings == validateResourceUpdate(resource, updates)
  IN IF Len(itemWarnings) > 0
     THEN [id |-> base.id, currentValues |-> base.currentValues,
           proposedChanges |-> base.proposedChanges, warnings |-> itemWarnings]
     ELSE base

\* mutant: the estimate counts whole groups of 50 resources only
EstimatedDuration_RoundsDown(n) == (n \div 50) * 1000

\* line 443: Math.ceil(resources.length / 50) * 1000
EstimatedDuration(n) == CeilDiv(n, 50) * 1000

\* lines 415-451
performDryRun(res, updates) ==
  [affectedCount |-> Len(res),
   preview |-> [k \in 1..Len(res) |-> PreviewEntry(res[k], updates)],
   warnings |-> Flatten([k \in 1..Len(res) |-> validateResourceUpdate(res[k], updates)]),
   estimatedDuration |-> EstimatedDuration(Len(res))]

\* part_011 lines 342-349, part_012 lines 220-227
NoOpResult ==
  [operationId |-> "no-op", total |-> 0, successful |-> 0, failed |-> 0, errors |-> <<>>,
   duration |-> 0]

\* lines 357-365
DryRunBulkResult(dryRunResult) ==
  [operationId |-> "dry-run", total |-> dryRunResult.affectedCount,
   successful |-> dryRunResult.affectedCount, failed |-> 0, errors |-> <<>>,
   duration |-> 0, rollbackData |-> dryRunResult.preview]

\* mutant: the dryRun flag of the config is not looked at
IsDryRun_Never(config) == FALSE

\* line 353: config?.dryRun
IsDryRun(config) == "dryRun" \in DOMAIN config /\ config["dryRun"]

InvalidFilterMessage(errors) == <<"Invalid filter: ">> \o Join(errors)
InvalidUpdatesMessage(errors) == <<"Invalid updates: ">> \o Join(errors)

\* the error a rejected getResources call carries
RequestFailed == <<"Request failed">>

\* mutant: the updates are validated before the filter
bulkUpdateCall_UpdatesFirst(filterValidation, updatesValidation, found, updates, config) ==
  /\ pc = "idle"
  /\ caller' = "bulkUpdate"
  /\ argument' = [filterValidation |-> filterValidation,
                  updatesValidation |-> updatesValidation,
                  found |-> found, updates |-> updates, config |-> config]
  /\ IF ~updatesValidation.isValid
     THEN /\ status' = "thrown"
          /\ thrown' = InvalidUpdatesMessage(updatesValidation.errors)
          /\ pc' = "done"
     ELSE IF ~filterValidation.isValid
     THEN /\ status' = "thrown"
          /\ thrown' = InvalidFilterMessage(filterValidation.errors)
          /\ pc' = "done"
     ELSE /\ pc' = "getResources"
          /\ UNCHANGED <<status, thrown>>
  /\ UNCHANGED <<instanceVars, configVars, retryVars, processVars, windowVars, bpVars,
                 progress, result, notifications, warned, opVars, retryHist,
                 resources, returned>>

\* bulkUpdate lines 311-337: the inputs are validated, getResources is called
bulkUpdateCall(filterValidation, updatesValidation, found, updates, config) ==
  /\ pc = "idle"
  /\ caller' = "bulkUpdate"
  /\ argument' = [filterValidation |-> filterValidation,
                  updatesValidation |-> updatesValidation,
                  found |-> found, updates |-> updates, config |-> config]
  /\ IF ~filterValidation.isValid
     THEN /\ status' = "thrown"
          /\ thrown' = InvalidFilterMessage(filterValidation.errors)
          /\ pc' = "done"
     ELSE IF ~updatesValidation.isValid
     THEN /\ status' = "thrown"
          /\ thrown' = InvalidUpdatesMessage(updatesValidation.errors)
          /\ pc' = "done"
     ELSE /\ pc' = "getResources"
          /\ UNCHANGED <<status, thrown>>
  /\ UNCHANGED <<instanceVars, configVars, retryVars, processVars, windowVars, bpVars,
                 progress, result, notifications, warned, opVars, retryHist,
                 resources, returned>>

\* bulkDelete, part_012 lines 203-216
bulkDeleteCall(filterValidation, found, config) ==
  /\ pc = "idle"
  /\ caller' = "bulkDelete"
  /\ argument' = [filterValidation |-> filterValidation, found |-> found, config |-> config]
  /\ IF ~filterValidation.isValid
     THEN /\ status' = "thrown"
          /\ thrown' = InvalidFilterMessage(filterValidation.errors)
          /\ pc' = "done"
     ELSE /\ pc' = "getResources"
          /\ UNCHANGED <<status, thrown>>
  /\ UNCHANGED <<instanceVars, configVars, retryVars, processVars, windowVars, bpVars,
                 progress, result, notifications, warned, opVars, retryHist,
                 resources, returned>>

\* bulkUpdate lines 338-376 and bulkDelete lines 216-239: getResources settled;
\* no resources, a dry run, or the call of processBatch (bulk.ts lines 19-36)
\* with one item per resource
getResourcesSettle ==
  /\ pc = "getResources"
  /\ caller \in {"bulkUpdate", "bulkDelete"}
  /\ LET found == argument.found IN
     IF ~found.ok
     THEN /\ status' = "thrown"
          /\ thrown' = RequestFailed
          /\ pc' = "done"
          /\ UNCHANGED <<resources, result, entry, items, fullConfig, opVars>>
     ELSE /\ resources' = found.resources
          /\ IF Len(found.resources) = 0
             THEN /\ status' = "returned"
                  /\ result' = NoOpResult
                  /\ pc' = "done"
                  /\ UNCHANGED <<thrown, entry, items, fullConfig, opVars>>
             ELSE IF caller = "bulkUpdate" /\ IsDryRun(argument.config)
             THEN /\ status' = "returned"
                  /\ result' = DryRunBulkResult(performDryRun(found.resources,
                                                               argument.updates))
                  /\ pc' = "done"
                  /\ UNCHANGED <<thrown, entry, items, fullConfig, opVars>>
             ELSE /\ entry' = "processBatch"
                  /\ items' = ItemList(Len(found.resources))
                  /\ fullConfig' = ApplyDefaults(argument.config)
                  /\ FreshOps(found.resources)
                  /\ pc' = "validate"
                  /\ UNCHANGED <<status, result, thrown>>
  /\ UNCHANGED <<instanceVars, batchSize, concurrency, retries, retryDelay, inRetry,
                 retryVars, processVars, windowVars, bpVars, progress, notifications,
                 warned, retryHist, caller, argument, returned>>

\* dryRun(filter, updates) is called on the operation object, part_011 line 385
dryRunEnter(filterValidation, updatesValidation, found, updates) ==
  /\ pc = "idle"
  /\ caller' = "dryRun"
  /\ argument' = [filterValidation |-> filterValidation,
                  updatesValidation |-> updatesValidation,
                  found |-> found, updates |-> updates]
  /\ pc' = "called"
  /\ UNCHANGED <<instanceVars, configVars, retryVars, processVars, windowVars, bpVars,
                 serviceVars, opVars, retryHist, resources, returned>>

\* dryRun(filter, updates), part_011 lines 385-400: the inputs are validated,
\* getResources is called
dryRunCall ==
  /\ pc = "called"
  /\ caller = "dryRun"
  /\ IF ~argument.filterValidation.isValid
     THEN /\ status' = "thrown"
          /\ thrown' = InvalidFilterMessage(argument.filterValidation.errors)
          /\ pc' = "done"
     ELSE IF ~argument.updatesValidation.isValid
     THEN /\ status' = "thrown"
          /\ thrown' = InvalidUpdatesMessage(argument.updatesValidation.errors)
          /\ pc' = "done"
     ELSE /\ pc' = "getResources"
          /\ UNCHANGED <<status, thrown>>
  /\ UNCHANGED <<instanceVars, configVars, retryVars, processVars, windowVars, bpVars,
                 progress, result, notifications, warned, opVars, retryHist, callVars>>

\* dryRun lines 400-402: getResources settled
dryRunSettle ==
  /\ pc = "getResources"
  /\ caller = "dryRun"
  /\ IF ~argument.found.ok
     THEN /\ status' = "thrown"
          /\ thrown' = RequestFailed
          /\ UNCHANGED <<resources, returned>>
     ELSE /\ resources' = argument.found.resources
          /\ returned' = performDryRun(argument.found.resources, argument.updates)
          /\ status' = "returned"
          /\ UNCHANGED thrown
  /\ pc' = "done"
  /\ UNCHANGED <<instanceVars, configVars, retryVars, processVars, windowVars, bpVars,
                 progress, result, notifications, warned, opVars, retryHist,
                 caller, argument>>

(***************************************************************************)
(* Specification.                                                          *)
(***************************************************************************)
Next ==
  \/ \E cb \in Callbacks : trackProgress(cb)
  \/ \E n \in 0..MaxServiceItems, partial \in CallerConfigs : processBatchCall(ItemList(n), partial)
  \/ validateConfig
  \/ notifyInitial
  \/ \E call \in ProcessorCalls, r \in 0..MaxRetries : processWithRetryCall(call, r, 10)
  \/ \E call \in ProcessCalls : processCall(call)
  \/ retryLoop
  \/ processStart
  \/ dispatchWindow
  \/ \E item \in inflight, ok \in BOOLEAN : settle(item, ok)
  \/ awaitWindow
  \/ processReturn
  \/ retryCollect
  \/ retryBackoff
  \/ retryEnd
  \/ serviceComplete
  \/ serviceCatch
  \/ \E filterValidation \in FilterValidations, updatesValidation \in UpdatesValidations,
        found \in GetResourcesOutcomes, updates \in UpdateSets, config \in OperationConfigs :
       bulkUpdateCall(filterValidation, updatesValidation, found, updates, config)
  \/ \E filterValidation \in FilterValidations, found \in GetResourcesOutcomes,
        config \in OperationConfigs :
       bulkDeleteCall(filterValidation, found, config)
  \/ getResourcesSettle
  \/ \E filterValidation \in FilterValidations, updatesValidation \in UpdatesValidations,
        found \in GetResourcesOutcomes, updates \in UpdateSets :
       dryRunEnter(filterValidation, updatesValidation, found, updates)
  \/ dryRunCall
  \/ dryRunSettle

Spec == Init /\ [][Next]_vars

(***************************************************************************)
(* The batch splitter on its own: process is entered with any item list    *)
(* and any batch size of the ranges below and partitions the list.         *)
(***************************************************************************)
InitSplit ==
  /\ progressCallbacks = <<>>
  /\ unsubscribed = {}
  /\ operationIds = <<>>
  /\ resourceType = ConstructedType
  /\ typeCalls = <<>>
  /\ loopArray = <<>> /\ loopDetached = FALSE /\ nextIndex = 0 /\ atStart = <<>>
  /\ pc = "processStart"
  /\ entry = "process"
  /\ items \in {ItemList(n) : n \in 0..MaxSplitItems}
  /\ fullConfig = getDefaultConfig
  /\ batchSize \in 1..MaxSplitBatchSize
  /\ concurrency = 1 /\ retries = 0 /\ retryDelay = 0
  /\ inRetry = FALSE
  /\ attempt = 0 /\ remainingItems = <<>> /\ allSuccessful = <<>> /\ allFailed = <<>>
  /\ batches = <<>> /\ i = 0 /\ successful = <<>> /\ failed = <<>>
  /\ batchSuccessful = <<>> /\ batchFailed = <<>> /\ inflight = {}
  /\ bpStatus = "none" /\ bpResult = NoBatchResult /\ bpError = ""
  /\ progress = NoProgress
  /\ status = "none" /\ result = NoResult /\ thrown = <<>>
  /\ started = [x \in 1..Len(items) |-> <<>>]
  /\ hist = [x \in 1..Len(items) |-> <<>>]
  /\ lastValue = [x \in 1..Len(items) |-> Ok]
  /\ delays = <<>> /\ roundFailed = <<>>
  /\ notifications = <<>> /\ warned = <<>>
  /\ caller = "none" /\ argument = NoArgument /\ resources = <<>> /\ returned = NoValue

NextSplit == processStart

SpecSplit == InitSplit /\ [][NextSplit]_vars

(***************************************************************************)
(* The static helpers and the previews called on their own: the call and   *)
(* its arguments are fixed at the start, the action runs the method.       *)
(***************************************************************************)
\* resource lists handed to previewChanges: every short list, and lists of
\* every length up to MaxPreviewCount
PreviewResourceLists ==
  UNION {[1..n -> Range(Servers)] : n \in 0..MaxPreviewResources}
  \cup {FoundResources(n) : n \in 0..MaxPreviewCount}

HelperCalls ==
  {[caller |-> "validateBulkConfig", argument |-> [config |-> c]] : c \in BoundaryConfigs}
  \cup {[caller |-> "getOptimalConfig", argument |-> [itemCount |-> n]] : n \in 0..MaxItemCount}
  \cup {[caller |-> "previewChanges", argument |-> [resources |-> res, updates |-> updates]] :
          res \in PreviewResourceLists, updates \in UpdateSets}
  \cup {[caller |-> "dryRun",
         argument |-> [filterValidation |-> filterValidation,
                       updatesValidation |-> updatesValidation,
                       found |-> found, updates |-> updates]] :
          filterValidation \in FilterValidations, updatesValidation \in UpdatesValidations,
          found \in GetResourcesOutcomes, updates \in UpdateSets}

InitHelpers ==
  /\ \E call \in HelperCalls : caller = call.caller /\ argument = call.argument
  /\ pc = "called"
  /\ progressCallbacks = <<>>
  /\ unsubscribed = {}
  /\ operationIds = <<>>
  /\ resourceType = ConstructedType
  /\ typeCalls = <<>>
  /\ loopArray = <<>> /\ loopDetached = FALSE /\ nextIndex = 0 /\ atStart = <<>>
  /\ entry = "none"
  /\ items = <<>>
  /\ fullConfig = getDefaultConfig
  /\ batchSize = 0 /\ concurrency = 0 /\ retries = 0 /\ retryDelay = 0
  /\ inRetry = FALSE
  /\ attempt = 0 /\ remainingItems = <<>> /\ allSuccessful = <<>> /\ allFailed = <<>>
  /\ batches = <<>> /\ i = 0 /\ successful = <<>> /\ failed = <<>>
  /\ batchSuccessful = <<>> /\ batchFailed = <<>> /\ inflight = {}
  /\ bpStatus = "none" /\ bpResult = NoBatchResult /\ bpError = ""
  /\ progress = NoProgress
  /\ status = "none" /\ result = NoResult /\ thrown = <<>>
  /\ started = <<>> /\ hist = <<>> /\ lastValue = <<>>
  /\ delays = <<>> /\ roundFailed = <<>>
  /\ notifications = <<>> /\ warned = <<>>
  /\ resources = <<>> /\ returned = NoValue

\* InputValidator.validateBulkConfig(config)
validateBulkConfigCall ==
  /\ pc = "called"
  /\ caller = "validateBulkConfig"
  /\ returned' = validateBulkConfig(argument.config)
  /\ pc' = "done"
  /\ UNCHANGED <<instanceVars, configVars, retryVars, processVars, windowVars, bpVars,
                 serviceVars, opVars, retryHist, caller, argument, resources>>

\* BulkOperationsService.getOptimalConfig(itemCount)
getOptimalConfigCall ==
  /\ pc = "called"
  /\ caller = "getOptimalConfig"
  /\ returned' = getOptimalConfig(argument.itemCount)
  /\ pc' = "done"
  /\ UNCHANGED <<instanceVars, configVars, retryVars, processVars, windowVars, bpVars,
                 serviceVars, opVars, retryHist, caller, argument, resources>>

\* previewChanges(resources, updates), part_011 lines 408-410
previewChangesCall ==
  /\ pc = "called"
  /\ caller = "previewChanges"
  /\ resources' = argument.resources
  /\ returned' = performDryRun(argument.resources, argument.updates)
  /\ status' = "returned"
  /\ pc' = "done"
  /\ UNCHANGED <<instanceVars, configVars, retryVars, processVars, windowVars, bpVars,
                 progress, result, thrown, notifications, warned, opVars, retryHist,
                 caller, argument>>

NextHelpers ==
  \/ validateBulkConfigCall
  \/ getOptimalConfigCall
  \/ previewChangesCall
  \/ dryRunCall
  \/ dryRunSettle

SpecHelpers == InitHelpers /\ [][NextHelpers]_vars

(***************************************************************************)
(* processBatch on a service whose subscribers are already registered,     *)
(* some of which throw whenever they are called.                           *)
(***************************************************************************)
NotifyCallbacks == {"cb1"} \cup ThrowingCallbacks

\* the subscriber lists: up to MaxNotifyCallbacks trackProgress calls
NotifyCallbackLists == UNION {[1..n -> NotifyCallbacks] : n \in 0..MaxNotifyCallbacks}

NotifyConfigs == [retryAttempts : {0, 1}, continueOnError : BOOLEAN]

InitNotify ==
  /\ progressCallbacks \in NotifyCallbackLists
  /\ unsubscribed = {}
  /\ operationIds = <<>>
  /\ resourceType = ConstructedType
  /\ typeCalls = <<>>
  /\ loopArray = <<>> /\ loopDetached = FALSE /\ nextIndex = 0 /\ atStart = <<>>
  /\ pc = "idle"
  /\ entry = "none"
  /\ items = <<>>
  /\ fullConfig = getDefaultConfig
  /\ batchSize = 0 /\ concurrency = 0 /\ retries = 0 /\ retryDelay = 0
  /\ inRetry = FALSE
  /\ attempt = 0 /\ remainingItems = <<>> /\ allSuccessful = <<>> /\ allFailed = <<>>
  /\ batches = <<>> /\ i = 0 /\ successful = <<>> /\ failed = <<>>
  /\ batchSuccessful = <<>> /\ batchFailed = <<>> /\ inflight = {}
  /\ bpStatus = "none" /\ bpResult = NoBatchResult /\ bpError = ""
  /\ progress = NoProgress
  /\ status = "none" /\ result = NoResult /\ thrown = <<>>
  /\ started = <<>> /\ hist = <<>> /\ lastValue = <<>>
  /\ delays = <<>> /\ roundFailed = <<>>
  /\ notifications = <<>> /\ warned = <<>>
  /\ caller = "none" /\ argument = NoArgument /\ resources = <<>> /\ returned = NoValue

NextNotify ==
  \/ \E n \in 0..MaxNotifyItems, partial \in NotifyConfigs : processBatchCall(ItemList(n), partial)
  \/ validateConfig
  \/ notifyInitial
  \/ retryLoop
  \/ processStart
  \/ dispatchWindow
  \/ \E item \in inflight, ok \in BOOLEAN : settle(item, ok)
  \/ awaitWindow
  \/ processReturn
  \/ retryCollect
  \/ retryBackoff
  \/ retryEnd
  \/ serviceComplete
  \/ serviceCatch

SpecNotify == InitNotify /\ [][NextNotify]_vars

(***************************************************************************)
(* Registration calls on a service that already has subscribers, followed  *)
(* by a processBatch call: the subscriber list at the start is the outcome *)
(* of up to MaxSubscribers trackProgress calls, the same callback possibly *)
(* registered more than once.                                              *)
(***************************************************************************)
SubscribeCallbacks == {"cb1", "cb2"}

SubscriberLists == UNION {[1..n -> SubscribeCallbacks] : n \in 0..MaxSubscribers}

SubscribeConfigs == [retryAttempts : {0}, continueOnError : BOOLEAN]

InitSubscribe ==
  /\ progressCallbacks \in SubscriberLists
  /\ unsubscribed = {}
  /\ operationIds = <<>>
  /\ resourceType = ConstructedType
  /\ typeCalls = <<>>
  /\ loopArray = <<>> /\ loopDetached = FALSE /\ nextIndex = 0 /\ atStart = <<>>
  /\ pc = "idle"
  /\ entry = "none"
  /\ items = <<>>
  /\ fullConfig = getDefaultConfig
  /\ batchSize = 0 /\ concurrency = 0 /\ retries = 0 /\ retryDelay = 0
  /\ inRetry = FALSE
  /\ attempt = 0 /\ remainingItems = <<>> /\ allSuccessful = <<>> /\ allFailed = <<>>
  /\ batches = <<>> /\ i = 0 /\ successful = <<>> /\ failed = <<>>
  /\ batchSuccessful = <<>> /\ batchFailed = <<>> /\ inflight = {}
  /\ bpStatus = "none" /\ bpResult = NoBatchResult /\ bpError = ""
  /\ progress = NoProgress
  /\ status = "none" /\ result = NoResult /\ thrown = <<>>
  /\ started = <<>> /\ hist = <<>> /\ lastValue = <<>>
  /\ delays = <<>> /\ roundFailed = <<>>
  /\ notifications = <<>> /\ warned = <<>>
  /\ caller = "none" /\ argument = NoArgument /\ resources = <<>> /\ returned = NoValue

NextSubscribe ==
  \/ \E cb \in SubscribeCallbacks : trackProgress(cb)
  \/ \E cb \in SubscribeCallbacks : removeProgressCallback(cb)
  \/ clearProgressCallbacks
  \/ \E n \in 0..MaxSubscribeItems, partial \in SubscribeConfigs :
       processBatchCall(ItemList(n), partial)
  \/ validateConfig
  \/ notifyInitial
  \/ processStart
  \/ dispatchWindow
  \/ \E item \in inflight, ok \in BOOLEAN : settle(item, ok)
  \/ awaitWindow
  \/ processReturn
  \/ serviceComplete

SpecSubscribe == InitSubscribe /\ [][NextSubscribe]_vars

(***************************************************************************)
(* Several calls of the entry points, one after the other, on the same     *)
(* service and operation object: when a call has returned its result, the  *)
(* caller keeps the operationId and makes the next call.                   *)
(***************************************************************************)
\* mutant: every uuidv4() call returns the same token
OperationIdOf_SharedToken(res, n) == <<res.operationId, 0>>

\* the operationId of a result as the caller sees it: 'no-op' and 'dry-run'
\* are string literals, uuidv4() (bulk.ts line 24) draws a token of its own
\* for the call, here the token of call number n
OperationIdOf(res, n) ==
  IF res.operationId = "uuid" THEN <<"uuid", n>> ELSE <<res.operationId, 0>>

\* the call in progress returns a BulkResult
ReturnsBulkResult == entry = "processBatch" \/ caller \in {"bulkUpdate", "bulkDelete"}

RepeatConfigs == [retryAttempts : {0}, continueOnError : {TRUE}]

\* the call has ended; the next call starts from the state the constructor
\* left, with the subscribers as they are
nextCall ==
  /\ pc = "done"
  /\ Len(operationIds) < MaxEarlierCalls
  /\ operationIds' =
       IF status = "returned" /\ ReturnsBulkResult
       THEN Append(operationIds, OperationIdOf(result, Len(operationIds) + 1))
       ELSE operationIds
  /\ pc' = "idle"
  /\ entry' = "none"
  /\ items' = <<>>
  /\ fullConfig' = getDefaultConfig
  /\ batchSize' = 0 /\ concurrency' = 0 /\ retries' = 0 /\ retryDelay' = 0
  /\ inRetry' = FALSE
  /\ attempt' = 0 /\ remainingItems' = <<>> /\ allSuccessful' = <<>> /\ allFailed' = <<>>
  /\ batches' = <<>> /\ i' = 0 /\ successful' = <<>> /\ failed' = <<>>
  /\ batchSuccessful' = <<>> /\ batchFailed' = <<>> /\ inflight' = {}
  /\ bpStatus' = "none" /\ bpResult' = NoBatchResult /\ bpError' = ""
  /\ progress' = NoProgress
  /\ status' = "none" /\ result' = NoResult /\ thrown' = <<>>
  /\ started' = <<>> /\ hist' = <<>> /\ lastValue' = <<>>
  /\ delays' = <<>> /\ roundFailed' = <<>>
  /\ notifications' = <<>> /\ warned' = <<>>
  /\ caller' = "none" /\ argument' = NoArgument /\ resources' = <<>> /\ returned' = NoValue
  /\ UNCHANGED <<progressCallbacks, unsubscribed, genericVars, loopVars>>

NextRepeat ==
  \/ \E n \in 0..MaxRepeatItems, partial \in RepeatConfigs : processBatchCall(ItemList(n), partial)
  \/ validateConfig
  \/ notifyInitial
  \/ retryLoop
  \/ processStart
  \/ dispatchWindow
  \/ \E item \in inflight, ok \in BOOLEAN : settle(item, ok)
  \/ awaitWindow
  \/ processReturn
  \/ retryCollect
  \/ retryBackoff
  \/ retryEnd
  \/ serviceComplete
  \/ serviceCatch
  \/ \E filterValidation \in FilterValidations, updatesValidation \in UpdatesValidations,
        found \in GetResourcesOutcomes, updates \in UpdateSets, config \in OperationConfigs :
       bulkUpdateCall(filterValidation, updatesValidation, found, updates, config)
  \/ \E filterValidation \in FilterValidations, found \in GetResourcesOutcomes,
        config \in OperationConfigs :
       bulkDeleteCall(filterValidation, found, config)
  \/ getResourcesSettle
  \/ nextCall

SpecRepeat == Init /\ [][NextRepeat]_vars

(***************************************************************************)
(* processBatch under fair scheduling: a continuation that can run is      *)
(* eventually run by the event loop, and an operation that was invoked     *)
(* eventually settles.                                                     *)
(***************************************************************************)
LiveConfigs ==
  [batchSize : 1..MaxLiveBatchSize, concurrentBatches : {1, 2},
   retryAttempts : 0..MaxLiveRetries, retryDelay : {10}, continueOnError : BOOLEAN]

\* a step of the call in progress
RunStep ==
  \/ validateConfig
  \/ notifyInitial
  \/ retryLoop
  \/ processStart
  \/ dispatchWindow
  \/ \E item \in inflight, ok \in BOOLEAN : settle(item, ok)
  \/ awaitWindow
  \/ processReturn
  \/ retryCollect
  \/ retryBackoff
  \/ retryEnd
  \/ serviceComplete
  \/ serviceCatch

NextLive ==
  \/ \E n \in 0..MaxLiveItems, partial \in LiveConfigs : processBatchCall(ItemList(n), partial)
  \/ RunStep

\* every step of a call moves its position or settles an operation in flight
stepVars == <<pc, inflight>>

SpecLive == Init /\ [][NextLive]_vars /\ WF_stepVars(RunStep)

(***************************************************************************)
(* The BatchProcessor called directly on short lists, with windows of one  *)
(* and of two batches.                                                     *)
(***************************************************************************)
OrderCalls ==
  [items : {ItemList(n) : n \in 0..MaxOrderItems}, batchSize : 1..MaxOrderBatchSize,
   concurrency : {1, 2}]

\* a step of the BatchProcessor call in progress
OrderStep ==
  \/ retryLoop
  \/ processStart
  \/ dispatchWindow
  \/ \E item \in inflight, ok \in BOOLEAN : settle(item, ok)
  \/ awaitWindow
  \/ processReturn
  \/ retryCollect
  \/ retryBackoff
  \/ retryEnd

NextOrder ==
  \/ \E call \in OrderCalls : processCall(call)
  \/ \E call \in OrderCalls, r \in 0..MaxOrderRetries : processWithRetryCall(call, r, 10)
  \/ OrderStep

\* the event loop runs every continuation that can run, and an operation that
\* was invoked settles
SpecOrder == Init /\ [][NextOrder]_vars /\ WF_stepVars(OrderStep)

(***************************************************************************)
(* GenericBulkOperations (src/unnamed/part_012): calls of bulkUpdateByType *)
(* and bulkUpdate on one instance that overlap in time.  Each call runs    *)
(* to its first await when it is made; what follows an await runs when the *)
(* awaited promise has settled, in any order among the calls.              *)
(***************************************************************************)
\* the resourceType argument of bulkUpdateByType
RequestedTypes == {"applications", "databases"}

\* how the getResources request of a call settles
FetchOutcomes == {"rejected", "empty", "found"}

OtherVars == <<progressCallbacks, unsubscribed, operationIds, loopVars, pc, configVars, retryVars,
               processVars, windowVars, bpVars, serviceVars, opVars, retryHist, callVars>>

\* the call at position c of typeCalls is at the given await
At(c, where) == c \in DOMAIN typeCalls /\ typeCalls[c].at = where

\* where a call goes when its bulkUpdate has settled
AfterBulkUpdate(call) == IF call.method = "bulkUpdateByType" THEN "finally" ELSE "done"

\* bulkUpdate up to its first await (part_011 lines 311-338): invalid inputs
\* reject the call, otherwise getResources builds its endpoint from
\* this.resourceType (part_012 line 30) and awaits the request
EnterBulkUpdate(call, valid, type) ==
  IF valid
  THEN [call EXCEPT !.at = "getResources", !.endpoint = type]
  ELSE [call EXCEPT !.at = AfterBulkUpdate(call), !.outcome = "thrown"]

\* line 131: this.resourceType = originalType
RestoredType(call) == call.originalType

\* lines 117-128: originalType is read, the type is changed, bulkUpdate is called
bulkUpdateByTypeCall(type, valid) ==
  /\ pc = "idle"
  /\ Len(typeCalls) < MaxTypeCalls
  /\ resourceType' = type
  /\ typeCalls' =
       Append(typeCalls,
              EnterBulkUpdate([method |-> "bulkUpdateByType", originalType |-> resourceType,
                               at |-> "called", endpoint |-> "", outcome |-> "none"],
                              valid, type))
  /\ UNCHANGED OtherVars

\* lines 105-112: bulkUpdate called on the instance
genericBulkUpdateCall(valid) ==
  /\ pc = "idle"
  /\ Len(typeCalls) < MaxTypeCalls
  /\ typeCalls' =
       Append(typeCalls,
              EnterBulkUpdate([method |-> "bulkUpdate", originalType |-> "",
                               at |-> "called", endpoint |-> "", outcome |-> "none"],
                              valid, resourceType))
  /\ UNCHANGED <<resourceType, OtherVars>>

\* part_011 lines 338-366: getResources settled; a rejection or no resource ends
\* bulkUpdate, otherwise processBatch is awaited
getResourcesSettled(c, fetched) ==
  /\ At(c, "getResources")
  /\ LET call == typeCalls[c]
     IN typeCalls' =
          [typeCalls EXCEPT ![c] =
             IF fetched = "rejected"
             THEN [call EXCEPT !.at = AfterBulkUpdate(call), !.outcome = "thrown"]
             ELSE IF fetched = "empty"
             THEN [call EXCEPT !.at = AfterBulkUpdate(call), !.outcome = "returned"]
             ELSE [call EXCEPT !.at = "processBatch"]]
  /\ UNCHANGED <<resourceType, OtherVars>>

\* part_011 lines 366-376: processBatch settled
processBatchSettled(c, threw) ==
  /\ At(c, "processBatch")
  /\ LET call == typeCalls[c]
     IN typeCalls' =
          [typeCalls EXCEPT ![c] =
             [call EXCEPT !.at = AfterBulkUpdate(call),
                          !.outcome = IF threw THEN "thrown" ELSE "returned"]]
  /\ UNCHANGED <<resourceType, OtherVars>>

\* lines 129-132: the finally block, run when the awaited bulkUpdate has settled
restoreResourceType(c) ==
  /\ At(c, "finally")
  /\ resourceType' = RestoredType(typeCalls[c])
  /\ typeCalls' = [typeCalls EXCEPT ![c].at = "done"]
  /\ UNCHANGED OtherVars

NextByType ==
  \/ \E type \in RequestedTypes, valid \in BOOLEAN : bulkUpdateByTypeCall(type, valid)
  \/ \E valid \in BOOLEAN : genericBulkUpdateCall(valid)
  \/ \E c \in 1..MaxTypeCalls, fetched \in FetchOutcomes : getResourcesSettled(c, fetched)
  \/ \E c \in 1..MaxTypeCalls, threw \in BOOLEAN : processBatchSettled(c, threw)
  \/ \E c \in 1..MaxTypeCalls : restoreResourceType(c)

SpecByType == Init /\ [][NextByType]_vars

(***************************************************************************)
(* notifyProgress (src/src/api/bulk.ts:190-206) one iteration at a time,   *)
(* with callbacks that call trackProgress, removeProgressCallback or       *)
(* clearProgressCallbacks on the service while they are being notified.    *)
(* The for-of loop reads this.progressCallbacks once and walks that array  *)
(* object by index.                                                        *)
(***************************************************************************)
\* callbacks by what they do when called: nothing, removeProgressCallback of
\* themselves, trackProgress of themselves, clearProgressCallbacks
ReentrantCallbacks == {"cb1", "cbRemovesItself", "cbTracksItself", "cbClears"}

\* the subscribers registered when the notification starts, each one once
ReentrantLists ==
  UNION {{l \in [1..n -> ReentrantCallbacks] : \A j, k \in 1..n : l[j] = l[k] => j = k} :
           n \in 1..MaxReentrantCallbacks}

InitReentrant ==
  /\ progressCallbacks \in ReentrantLists
  /\ unsubscribed = {}
  /\ operationIds = <<>>
  /\ resourceType = ConstructedType
  /\ typeCalls = <<>>
  /\ loopArray = <<>> /\ loopDetached = FALSE /\ nextIndex = 0 /\ atStart = <<>>
  /\ pc = "idle"
  /\ entry = "none"
  /\ items = <<>>
  /\ fullConfig = getDefaultConfig
  /\ batchSize = 0 /\ concurrency = 0 /\ retries = 0 /\ retryDelay = 0
  /\ inRetry = FALSE
  /\ attempt = 0 /\ remainingItems = <<>> /\ allSuccessful = <<>> /\ allFailed = <<>>
  /\ batches = <<>> /\ i = 0 /\ successful = <<>> /\ failed = <<>>
  /\ batchSuccessful = <<>> /\ batchFailed = <<>> /\ inflight = {}
  /\ bpStatus = "none" /\ bpResult = NoBatchResult /\ bpError = ""
  /\ progress = NoProgress
  /\ status = "none" /\ result = NoResult /\ thrown = <<>>
  /\ started = <<>> /\ hist = <<>> /\ lastValue = <<>>
  /\ delays = <<>> /\ roundFailed = <<>>
  /\ notifications = <<>> /\ warned = <<>>
  /\ caller = "none" /\ argument = NoArgument /\ resources = <<>> /\ returned = NoValue

\* lines 173-178 applied to a list
AfterRemove(list, cb) ==
  IF IndexOf(list, cb) > 0 THEN RemoveAt(list, IndexOf(list, cb)) ELSE list

\* this.progressCallbacks after the callback has run
CallbacksAfter(cb) ==
  CASE cb = "cbRemovesItself" -> AfterRemove(progressCallbacks, cb)
    [] cb = "cbTracksItself" -> Append(progressCallbacks, cb)
    [] cb = "cbClears" -> <<>>
    [] OTHER -> progressCallbacks

\* lines 50-63 and 190-200: notifyProgress is entered with the initial progress
\* of a run and the loop takes the array's iterator
notifyProgressCall(its) ==
  /\ pc = "idle"
  /\ progress' = InitialProgress(its, getDefaultConfig)
  /\ loopArray' = progressCallbacks
  /\ loopDetached' = FALSE
  /\ nextIndex' = 0
  /\ atStart' = progressCallbacks
  /\ pc' = "notifying"
  /\ UNCHANGED <<progressCallbacks, unsubscribed, operationIds, genericVars, configVars,
                 retryVars, processVars, windowVars, bpVars, status, result, thrown,
                 notifications, warned, opVars, retryHist, callVars>>

\* lines 200-206, one iteration: the callback at the iterator's index is called
\* and changes the subscriber list as it is made to; push and splice act on the
\* array the loop walks, clearProgressCallbacks (line 184) installs a new array
invokeCallback ==
  /\ pc = "notifying"
  /\ nextIndex < Len(loopArray)
  /\ LET cb == loopArray[nextIndex + 1]
     IN /\ Len(CallbacksAfter(cb)) <= MaxListLength
        /\ notifications' = Append(notifications, [callback |-> cb, progress |-> progress])
        /\ progressCallbacks' = CallbacksAfter(cb)
        /\ loopDetached' = (loopDetached \/ cb = "cbClears")
        /\ loopArray' = IF loopDetached' THEN loopArray ELSE progressCallbacks'
        /\ unsubscribed' =
             CASE cb = "cbRemovesItself" -> unsubscribed \cup {cb}
               [] cb = "cbClears" -> unsubscribed \cup Range(progressCallbacks)
               [] cb = "cbTracksItself" -> unsubscribed \ {cb}
               [] OTHER -> unsubscribed
  /\ nextIndex' = nextIndex + 1
  /\ UNCHANGED <<operationIds, genericVars, atStart, pc, configVars, retryVars, processVars,
                 windowVars, bpVars, progress, status, result, thrown, warned, opVars,
                 retryHist, callVars>>

\* line 200: the iterator is exhausted, the loop and notifyProgress end
notifyProgressReturn ==
  /\ pc = "notifying"
  /\ nextIndex >= Len(loopArray)
  /\ pc' = "notified"
  /\ UNCHANGED <<instanceVars, configVars, retryVars, processVars, windowVars, bpVars,
                 serviceVars, opVars, retryHist, callVars>>

NextReentrant ==
  \/ \E n \in 0..MaxSubscribeItems : notifyProgressCall(ItemList(n))
  \/ invokeCallback
  \/ notifyProgressReturn

SpecReentrant == InitReentrant /\ [][NextReentrant]_vars

(***************************************************************************)
(* processWithRetry and process called directly on a BatchProcessor.       *)
(* processWithRetry checks none of its parameters (part_011 lines          *)
(* 129-140), so retries is any integer the caller passes, negative ones    *)
(* included.                                                               *)
(***************************************************************************)
RetryCalls ==
  [items : {ItemList(n) : n \in 0..MaxRetryItems}, batchSize : 1..MaxRetryBatchSize,
   concurrency : {1, 2}]

NextRetry ==
  \/ \E call \in RetryCalls : processCall(call)
  \/ \E call \in RetryCalls, r \in (-1)..MaxRetryRounds : processWithRetryCall(call, r, 10)
  \/ OrderStep

SpecRetry == Init /\ [][NextRetry]_vars

(***************************************************************************)
(* Properties.                                                             *)
(***************************************************************************)
\* the item's last settled invocation resolved
LastOk(x) == hist[x] # <<>> /\ hist[x][Len(hist[x])]

\* the item's last settled invocation rejected
LastFailed(x) == hist[x] # <<>> /\ ~hist[x][Len(hist[x])]

\* invocations of the operation on the item that have started and not settled
Unsettled(x) == Calls(x) - Len(hist[x])

\* the effective configuration passes validation
ConfigIsValid ==
  /\ fullConfig.batchSize > 0
  /\ fullConfig.concurrentBatches > 0
  /\ fullConfig.retryAttempts >= 0
  /\ fullConfig.retryDelay >= 0

\* C1: every Result returned by processBatch has total = items.length,
\* successful + failed = total, and exactly `failed` entries in errors.
C1_ResultAccountsForEveryItem ==
  (entry = "processBatch" /\ status = "returned") =>
    /\ result.total = Len(items)
    /\ result.successful + result.failed = result.total
    /\ Len(result.errors) = result.failed
    /\ result.successful = Cardinality({x \in DOMAIN hist : LastOk(x)})

\* a Result with successes and failures, after at least one retry round
C1_Witness ==
  /\ entry = "processBatch" /\ status = "returned"
  /\ result.successful > 0 /\ result.failed > 0
  /\ Len(delays) > 0

\* C2: createBatches yields ceil(n/b) batches whose concatenation is the input,
\* all of b items except the last, which has 1..b items; none for n = 0.
C2_BatchesPartitionInOrder ==
  (pc = "processLoop") =>
    LET n == Len(ProcessItems)
        m == Len(batches)
    IN /\ m * batchSize >= n
       /\ (m - 1) * batchSize < n \/ (n = 0 /\ m = 0)
       /\ Flatten(batches) = ProcessItems
       /\ \A k \in 1..(m - 1) : Len(batches[k]) = batchSize
       /\ m > 0 => (Len(batches[m]) >= 1 /\ Len(batches[m]) <= batchSize)
       /\ n = 0 => batches = <<>>

\* several full batches followed by a shorter last one
C2_Witness ==
  /\ pc = "processLoop"
  /\ Len(batches) >= 3
  /\ Len(batches[Len(batches)]) < batchSize
  /\ Len(batches[Len(batches)]) > 1

\* C3: the invocations started and not settled number at most b x c and
\* belong to at most c batches; at most 2 in the test with b = 2, c = 1, 6 items.
C3_InFlightBounded ==
  LET open == {x \in DOMAIN started : Unsettled(x) > 0}
  IN /\ \A x \in DOMAIN started : Unsettled(x) \in {0, 1}
     /\ Cardinality(open) <= batchSize * concurrency
     /\ Cardinality({BatchOf(x) : x \in open}) <= concurrency
     /\ (items = ConcurrencyTest.items /\ batchSize = 2 /\ concurrency = 1)
          => Cardinality(open) <= 2

\* the concurrency test with its second batch fully in flight
C3_Witness ==
  /\ entry = "process"
  /\ items = ConcurrencyTest.items /\ batchSize = 2 /\ concurrency = 1
  /\ {x \in DOMAIN started : Unsettled(x) > 0} = {3, 4}

\* C4: an item is invoked in round k >= 1 only if its invocation of round
\* k-1 failed; every item is invoked between 1 and R+1 times, never after it
\* succeeded, and an item that succeeds ends in the successful list.
C4_OnlyFailedItemsAreRetried ==
  inRetry =>
    \A x \in DOMAIN started :
      /\ started[x] = [k \in 1..Calls(x) |-> k - 1]
      /\ \A k \in 2..Calls(x) : Len(hist[x]) >= k - 1 /\ ~hist[x][k - 1]
      /\ \A k \in 1..Len(hist[x]) : hist[x][k] => k = Calls(x)
      /\ Calls(x) <= retries + 1
      /\ bpStatus # "none" => (Calls(x) >= 1 /\ Len(hist[x]) = Calls(x))
      /\ (bpStatus = "returned" /\ LastOk(x)) =>
            Cardinality({k \in 1..Len(bpResult.successful) : bpResult.successful[k] = x}) = 1
      /\ (bpStatus = "returned" /\ LastFailed(x)) => x \notin Range(bpResult.successful)

\* R = 2, every item fails twice then succeeds: 3 invocations each, all successful
C4_Witness ==
  /\ inRetry /\ retries = 2 /\ bpStatus = "returned"
  /\ Len(items) >= 2
  /\ \A x \in DOMAIN started : Calls(x) = 3 /\ hist[x] = <<FALSE, FALSE, TRUE>>
  /\ Len(bpResult.successful) = Len(items) /\ bpResult.failed = <<>>

\* C5: round k >= 1 is dispatched after every invocation of round k-1 has
\* settled and after one delay of retryDelay x 2^(k-1); no delay follows a
\* round without failures, nor round R.
C5_RoundsWithExponentialBackoff ==
  inRetry =>
    /\ Len(delays) = attempt
    /\ Len(delays) <= retries
    /\ \A k \in 1..Len(delays) :
         /\ delays[k] = retryDelay * 2 ^ (k - 1)
         /\ roundFailed[k] > 0
    /\ Len(roundFailed) <= Len(delays) + 1
    /\ bpStatus # "none" => Len(roundFailed) = Len(delays) + 1
    /\ \A x \in DOMAIN started :
         /\ Unsettled(x) > 0 => started[x][Calls(x)] = attempt
         /\ \A k \in 1..Calls(x) : started[x][k] <= Len(delays)

\* a run of three rounds: the delays of rounds 1 and 2 have elapsed
C5_Witness ==
  /\ inRetry /\ bpStatus # "none"
  /\ retryDelay = 10 /\ delays = <<10, 20>>

\* every item was invoked in each of the R+1 rounds and failed in all of them
AllRoundsFailed ==
  /\ inRetry
  /\ items # <<>>
  /\ pc \in {"serviceEnd", "done"}
  /\ \A x \in DOMAIN hist :
       /\ Len(hist[x]) = retries + 1
       /\ \A k \in 1..Len(hist[x]) : ~hist[x][k]

\* the failure text captured for the last entry of the final round's failed list
LastCapturedText == ErrorMessage(lastValue[allFailed[Len(allFailed)].item])

C7_ContinueOnErrorNeverThrows ==
  (entry = "processBatch" /\ ConfigIsValid /\ fullConfig.continueOnError) =>
    /\ status # "thrown"
    /\ pc = "done" => status = "returned"
    /\ (pc = "done" /\ \A x \in DOMAIN hist : LastFailed(x)) =>
         /\ result.successful = 0
         /\ result.failed = Len(items)
         /\ result.total = Len(items)

\* every item failed in every retry round and a Result came back
C7_Witness ==
  /\ entry = "processBatch" /\ fullConfig.continueOnError
  /\ retries > 0 /\ AllRoundsFailed
  /\ Len(items) >= 2
  /\ status = "returned"

\* C8: with continueOnError = false and a valid config processBatch throws
\* if and only if some item is still failed after the last round, and returns
\* a Result exactly when every item eventually succeeded.
C8_ThrowsIffSomeItemFailed ==
  (entry = "processBatch" /\ ConfigIsValid /\ ~fullConfig.continueOnError /\ pc = "done") =>
    /\ status \in {"thrown", "returned"}
    /\ status = "thrown" <=> \E x \in DOMAIN hist : LastFailed(x)
    /\ status = "returned" <=> \A x \in DOMAIN hist : LastOk(x)

\* a partial failure after retries, thrown
C8_Witness ==
  /\ entry = "processBatch" /\ ConfigIsValid /\ ~fullConfig.continueOnError /\ pc = "done"
  /\ fullConfig.retryAttempts > 0
  /\ \E x \in DOMAIN hist : LastOk(x)
  /\ \E x \in DOMAIN hist : LastFailed(x)
  /\ status = "thrown"

\* C9: when some item succeeded and some item failed, process and
\* processWithRetry return; every item is in exactly one of the two lists,
\* successful holds the items whose last invocation succeeded, and each failed
\* entry carries the text of that item's last failed invocation.
C9_PartialFailureIsData ==
  (/\ bpStatus # "none"
   /\ \E x \in DOMAIN hist : LastOk(x)
   /\ \E x \in DOMAIN hist : LastFailed(x)) =>
    /\ bpStatus = "returned"
    /\ Len(bpResult.successful) + Len(bpResult.failed) = Len(items)
    /\ Range(bpResult.successful) = {x \in DOMAIN hist : LastOk(x)}
    /\ {e.item : e \in Range(bpResult.failed)} = {x \in DOMAIN hist : LastFailed(x)}
    /\ \A e \in Range(bpResult.failed) : e.error = ErrorMessage(lastValue[e.item])

\* the partial-failure test: items 1..5, 2 and 4 fail, no retries
C9_Witness ==
  /\ entry = "process" /\ items = PartialFailureTest.items
  /\ batchSize = 3 /\ concurrency = 2
  /\ bpStatus = "returned"
  /\ bpResult.successful = <<1, 3, 5>>
  /\ FailedItems(bpResult.failed) = <<2, 4>>
  /\ bpResult.failed[1].error = ErrorMessage(lastValue[2])

\* the validation errors of the effective configuration, in the order of the checks
ExpectedConfigErrors ==
  (IF fullConfig.batchSize <= 0 THEN <<"Batch size must be greater than 0">> ELSE <<>>)
  \o (IF fullConfig.concurrentBatches <= 0
      THEN <<"Concurrent batches must be greater than 0">> ELSE <<>>)
  \o (IF fullConfig.retryAttempts < 0 THEN <<"Retry attempts cannot be negative">> ELSE <<>>)
  \o (IF fullConfig.retryDelay < 0 THEN <<"Retry delay cannot be negative">> ELSE <<>>)

\* C10: an invalid effective config makes processBatch throw 'Invalid
\* configuration: ' followed by all validation errors joined by ', ', before
\* any operation invocation and before any subscriber notification.
C10_InvalidConfigFailsFirst ==
  (entry = "processBatch" /\ ~ConfigIsValid) =>
    /\ \A x \in DOMAIN started : Calls(x) = 0
    /\ notifications = <<>>
    /\ pc \in {"validate", "done"}
    /\ pc = "done" =>
         /\ status = "thrown"
         /\ thrown[1] = "Invalid configuration: "
         /\ Len(thrown) = 2 * Len(ExpectedConfigErrors)
         /\ \A k \in 1..Len(ExpectedConfigErrors) :
              /\ thrown[2 * k] = ExpectedConfigErrors[k]
              /\ k > 1 => thrown[2 * k - 1] = ", "

\* two validation errors thrown to a caller with items and a subscriber
C10_Witness ==
  /\ entry = "processBatch" /\ pc = "done" /\ status = "thrown"
  /\ fullConfig.batchSize <= 0 /\ fullConfig.concurrentBatches <= 0
  /\ Len(thrown) = 4
  /\ items # <<>>
  /\ progressCallbacks # <<>>

\* limits of validateBulkConfig: a value below ErrorBelow is an error, a value
\* above WarnAbove a warning
ErrorBelow == [batchSize |-> 1, concurrentBatches |-> 1, retryAttempts |-> 0, retryDelay |-> 0]
WarnAbove == [batchSize |-> 1000, concurrentBatches |-> 10, retryAttempts |-> 10,
              retryDelay |-> 30000]

ErrorText ==
  [batchSize |-> "Batch size must be greater than 0",
   concurrentBatches |-> "Concurrent batches must be greater than 0",
   retryAttempts |-> "Retry attempts cannot be negative",
   retryDelay |-> "Retry delay cannot be negative"]

WarningText ==
  [batchSize |-> "Large batch size may cause performance issues",
   concurrentBatches |-> "High concurrency may overwhelm the API",
   retryAttempts |-> "High retry attempts may cause long delays",
   retryDelay |-> "Long retry delay may cause timeouts"]

\* C11: validateBulkConfig checks each present field on its own and reports at
\* most one message for it: an error below the lower limit, a warning above the
\* upper limit, nothing at the limits 1000, 10, 10, 30000 and 0, nothing for an
\* absent field; isValid holds exactly when there is no error.
C11_EachFieldCheckedOnItsOwn ==
  (caller = "validateBulkConfig" /\ pc = "done") =>
    LET c == argument.config
        inError == {f \in NumericFields : f \in DOMAIN c /\ c[f] < ErrorBelow[f]}
        inWarning == {f \in NumericFields : f \in DOMAIN c /\ c[f] > WarnAbove[f]}
    IN /\ Range(returned.errors) = {ErrorText[f] : f \in inError}
       /\ Len(returned.errors) = Cardinality(inError)
       /\ Range(returned.warnings) = {WarningText[f] : f \in inWarning}
       /\ Len(returned.warnings) = Cardinality(inWarning)
       /\ inError \cap inWarning = {}
       /\ returned.isValid <=> returned.errors = <<>>
       /\ inError = {} => returned.isValid

\* a config at three limits with one absent field and a warning: still valid
C11_Witness ==
  /\ caller = "validateBulkConfig" /\ pc = "done"
  /\ DOMAIN argument.config = {"batchSize", "concurrentBatches", "retryAttempts"}
  /\ argument.config["batchSize"] = 1000
  /\ argument.config["concurrentBatches"] = 11
  /\ argument.config["retryAttempts"] = 0
  /\ returned = [isValid |-> TRUE, errors |-> <<>>,
                 warnings |-> <<"High concurrency may overwhelm the API">>]

\* bulkUpdate or bulkDelete passed its input validation and getResources found nothing
NoMatchingResources ==
  /\ caller \in {"bulkUpdate", "bulkDelete"}
  /\ argument.filterValidation.isValid
  /\ caller = "bulkUpdate" => argument.updatesValidation.isValid
  /\ argument.found.ok /\ argument.found.resources = <<>>

\* the operation was invoked on no item in no round
NothingInvoked == (\A x \in DOMAIN started : Calls(x) = 0) /\ inflight = {} /\ delays = <<>>

\* C12: on empty input no entry point invokes the operation or throws:
\* processBatch with a valid config, process and processWithRetry return
\* empty lists, bulkUpdate and bulkDelete with no matching resources return,
\* all with total = successful = failed = 0; an empty input is never a total
\* failure.
C12_EmptyInputInvokesNothing ==
  /\ (entry \in {"process", "processWithRetry"} /\ items = <<>>) =>
       /\ NothingInvoked
       /\ bpStatus # "thrown"
       /\ pc = "done" =>
            (bpStatus = "returned" /\ bpResult.successful = <<>> /\ bpResult.failed = <<>>)
  /\ (caller = "none" /\ entry = "processBatch" /\ items = <<>> /\ ConfigIsValid) =>
       /\ NothingInvoked
       /\ bpStatus # "thrown" /\ status # "thrown"
       /\ pc = "done" =>
            /\ status = "returned"
            /\ result.total = 0 /\ result.successful = 0 /\ result.failed = 0
            /\ result.errors = <<>>
  /\ NoMatchingResources =>
       /\ NothingInvoked
       /\ bpStatus # "thrown" /\ status # "thrown"
       /\ pc = "done" =>
            /\ status = "returned"
            /\ result.total = 0 /\ result.successful = 0 /\ result.failed = 0
            /\ result.errors = <<>>

\* processBatch with the default config (retryAttempts = 3) returned for no items
C12_Witness ==
  /\ caller = "none" /\ entry = "processBatch" /\ items = <<>>
  /\ fullConfig = getDefaultConfig
  /\ inRetry /\ retries = 3
  /\ pc = "done" /\ status = "returned" /\ result.total = 0

\* C13: given an empty item list, processBatch and the bulkUpdate and
\* bulkDelete wrappers return the canonical no-op Result (operationId 'no-op',
\* all counts 0, no errors, duration 0) without entering the batch scheduler.
C13_EmptyInputGivesNoOpResult ==
  (/\ pc = "done"
   /\ \/ caller = "none" /\ entry = "processBatch" /\ items = <<>> /\ ConfigIsValid
      \/ NoMatchingResources) =>
    /\ status = "returned"
    /\ result = NoOpResult
    /\ bpStatus = "none"

\* bulkUpdate passed its input validation, getResources found n >= 1 resources
\* and the config asks for a dry run
DryRunUpdate ==
  /\ caller = "bulkUpdate"
  /\ argument.filterValidation.isValid /\ argument.updatesValidation.isValid
  /\ argument.found.ok /\ Len(argument.found.resources) >= 1
  /\ "dryRun" \in DOMAIN argument.config /\ argument.config["dryRun"] = TRUE

\* C14: bulkUpdate with config.dryRun = true and n >= 1 matching resources
\* never invokes updateResource nor the batch scheduler, and returns the Result
\* {'dry-run', total n, successful n, failed 0, no errors, duration 0,
\* rollbackData = the preview list}.
C14_DryRunUpdateInvokesNothing ==
  DryRunUpdate =>
    /\ entry = "none" /\ started = <<>> /\ inflight = {}
    /\ bpStatus = "none" /\ notifications = <<>>
    /\ status # "thrown"
    /\ pc \in {"getResources", "done"}
    /\ pc = "done" =>
         LET n == Len(argument.found.resources) IN
         /\ status = "returned"
         /\ DOMAIN result = {"operationId", "total", "successful", "failed", "errors",
                             "duration", "rollbackData"}
         /\ result.operationId = "dry-run"
         /\ result.total = n /\ result.successful = n /\ result.failed = 0
         /\ result.errors = <<>> /\ result.duration = 0
         /\ Len(result.rollbackData) = n
         /\ \A k \in 1..n :
              /\ result.rollbackData[k].id = getResourceId(resources[k])
              /\ result.rollbackData[k].proposedChanges = argument.updates
         /\ result.rollbackData = performDryRun(resources, argument.updates).preview

\* a dry-run Result for two resources, one of them warned about
C14_Witness ==
  /\ DryRunUpdate /\ pc = "done"
  /\ result.operationId = "dry-run" /\ result.total = 2
  /\ Len(result.rollbackData) = 2
  /\ "warnings" \in DOMAIN result.rollbackData[1]
  /\ "warnings" \notin DOMAIN result.rollbackData[2]

\* C15: processBatch called with config.dryRun = true invokes the operation on
\* no item and returns a Result with operationId 'dry-run', successful = total
\* and failed = 0.
C15_ProcessBatchHonoursDryRun ==
  (caller = "none" /\ entry = "processBatch" /\ ConfigIsValid /\ fullConfig.dryRun) =>
    /\ \A x \in DOMAIN started : Calls(x) = 0
    /\ pc = "done" =>
         /\ status = "returned"
         /\ result.operationId = "dry-run"
         /\ result.successful = result.total
         /\ result.failed = 0

\* the text a rejection value must be recorded as
CapturedText(v) ==
  CASE v.kind = "Error" -> v.text
    [] v.kind = "string" -> v.text
    [] v.kind = "null" -> "null"
    [] v.kind = "undefined" -> "undefined"

\* entries of the failed lists that are being filled or have been returned
FailedEntries ==
  Range(failed) \cup Range(allFailed) \cup UNION {Range(batchFailed[k]) : k \in DOMAIN batchFailed}

\* C16: every value the operation rejects with is captured as text and never
\* escapes process: an Error by its message, null as 'null', undefined as
\* 'undefined', a string as itself; the failing item lands in the failed list
\* and the other items are unaffected.
C16_FailureValuesCapturedAsText ==
  /\ \A e \in FailedEntries :
       /\ LastFailed(e.item)
       /\ e.error = CapturedText(lastValue[e.item])
  /\ bpStatus = "thrown" => inRetry
  /\ (~inRetry /\ bpStatus # "none") =>
       /\ bpStatus = "returned"
       /\ {e.item : e \in Range(bpResult.failed)} = {x \in DOMAIN hist : LastFailed(x)}
       /\ Len(bpResult.failed) = Cardinality({x \in DOMAIN hist : LastFailed(x)})
       /\ Range(bpResult.successful) = {x \in DOMAIN hist : LastOk(x)}
       /\ \A e \in Range(bpResult.failed) : e.error = CapturedText(lastValue[e.item])

\* one batch whose items rejected with null, a string and undefined, next to
\* a batch whose items all succeeded
C16_Witness ==
  /\ entry = "process" /\ items = PartialFailureTest.items /\ batchSize = 3
  /\ bpStatus = "returned"
  /\ bpResult.failed = <<[item |-> 1, error |-> "null"],
                         [item |-> 2, error |-> "string error"],
                         [item |-> 3, error |-> "undefined"]>>
  /\ bpResult.successful = <<4, 5>>

\* positions of the subscriber list that hold a throwing callback
ThrowingPositions == {k \in 1..Len(progressCallbacks) : progressCallbacks[k] \in ThrowingCallbacks}

\* C17: a subscriber that throws never aborts or alters the run: its error is
\* caught and logged, every subscriber of the list is still invoked for the
\* same update, in order, and processBatch ends as the item outcomes alone
\* decide, with the Result counts of a run without subscribers.
C17_ThrowingSubscriberIsContained ==
  (entry = "processBatch" /\ ConfigIsValid) =>
    LET n == Len(progressCallbacks)
        updates == IF pc \in {"validate", "notifyInitial"} THEN {0}
                   ELSE IF pc = "done" THEN {1, 2}
                   ELSE {1}
    IN /\ \E u \in updates :
            /\ Len(notifications) = u * n
            /\ Len(warned) = u * Cardinality(ThrowingPositions)
       /\ \A k \in 1..Len(notifications) :
            /\ notifications[k].callback = progressCallbacks[((k - 1) % n) + 1]
            /\ notifications[k].progress = notifications[k - ((k - 1) % n)].progress
       /\ Range(warned) \subseteq ThrowingCallbacks
       /\ status = "thrown" =>
            (~fullConfig.continueOnError /\ \E x \in DOMAIN hist : LastFailed(x))
       /\ pc = "done" =>
            /\ status \in {"returned", "thrown"}
            /\ fullConfig.continueOnError => status = "returned"
            /\ status = "returned" =>
                 /\ result.total = Len(items)
                 /\ result.successful = Cardinality({x \in DOMAIN hist : LastOk(x)})
                 /\ result.failed = Cardinality({x \in DOMAIN hist : LastFailed(x)})
                 /\ Len(notifications) = 2 * n

\* a throwing subscriber registered before a well-behaved one: both were
\* called for the initial and the final update, and a Result came back
C17_Witness ==
  /\ entry = "processBatch" /\ pc = "done" /\ status = "returned"
  /\ progressCallbacks = <<"cbThrows", "cb1">>
  /\ Len(notifications) = 4
  /\ notifications[2].callback = "cb1" /\ notifications[4].callback = "cb1"
  /\ notifications[4].progress.completed = 1 /\ notifications[4].progress.failed = 1
  /\ warned = <<"cbThrows", "cbThrows">>
  /\ result.successful = 1 /\ result.failed = 1

\* a dry run came back with its DryRunResult
PreviewReturned ==
  /\ caller \in {"previewChanges", "dryRun"}
  /\ pc = "done" /\ status = "returned"

\* the update entries whose value the resource already has
AlreadySet(resource, updates) ==
  SelectSeq(updates, LAMBDA u :
    (IF u.key \in DOMAIN resource THEN resource[u.key] ELSE Undefined) = u.value)

\* the warnings of a preview entry; none when the field is absent
EntryWarnings(e) == IF "warnings" \in DOMAIN e THEN e.warnings ELSE <<>>

\* C18: previewChanges and dryRun never invoke updateResource and return one
\* PreviewEntry per resource in input order: currentValues holds exactly the
\* update keys the resource owns, with its values; proposedChanges is the
\* update set; one warning per update entry whose value the resource already
\* has, naming that key; warnings is absent on an entry without any; the
\* top-level warnings are the per-entry warnings concatenated in item order.
C18_PreviewListsEveryResource ==
  /\ caller \in {"previewChanges", "dryRun"} =>
       (entry = "none" /\ started = <<>> /\ bpStatus = "none" /\ result = NoResult)
  /\ PreviewReturned =>
       LET updates == argument.updates
           keys == {updates[j].key : j \in 1..Len(updates)}
           preview == returned.preview
       IN /\ Len(preview) = Len(resources)
          /\ \A k \in 1..Len(resources) :
               LET r == resources[k]
                   e == preview[k]
                   same == AlreadySet(r, updates)
               IN /\ e.id = getResourceId(r)
                  /\ DOMAIN e.currentValues = keys \cap DOMAIN r
                  /\ \A f \in DOMAIN e.currentValues : e.currentValues[f] = r[f]
                  /\ e.proposedChanges = updates
                  /\ "warnings" \in DOMAIN e <=> same # <<>>
                  /\ Len(EntryWarnings(e)) = Len(same)
                  /\ \A j \in 1..Len(same) : EntryWarnings(e)[j][1] = same[j].key
          /\ returned.warnings = Flatten([k \in 1..Len(preview) |-> EntryWarnings(preview[k])])

\* two resources previewed for two update keys: the first is warned about
\* status, the second about environment and owns no status
C18_Witness ==
  /\ PreviewReturned /\ caller = "previewChanges"
  /\ resources = <<ServerA, ServerC>>
  /\ Len(argument.updates) = 2
  /\ returned.preview[1].currentValues = [status |-> "active"]
  /\ returned.preview[2].currentValues = [environment |-> "prod"]
  /\ returned.warnings = <<AlreadySetMessage("status", "active"),
                           AlreadySetMessage("environment", "prod")>>

\* C19: the dry-run result has affectedCount = n = length of preview and
\* estimatedDuration = ceil(n / 50) x 1000: 0 for n = 0, 1000 for 1..50,
\* 2000 for 51..100, whatever the update set.
C19_EstimateIsCeilOfFifties ==
  PreviewReturned =>
    LET n == Len(resources) IN
    /\ returned.affectedCount = n
    /\ Len(returned.preview) = n
    /\ \E m \in 0..n :
         /\ returned.estimatedDuration = m * 1000
         /\ 50 * (m - 1) < n /\ n <= 50 * m
    /\ n = 0 => returned.estimatedDuration = 0
    /\ (1 <= n /\ n <= 50) => returned.estimatedDuration = 1000
    /\ (51 <= n /\ n <= 100) => returned.estimatedDuration = 2000

\* 51 resources: the estimate has moved to 2000 ms
C19_Witness ==
  /\ PreviewReturned
  /\ Len(resources) = 51
  /\ returned.affectedCount = 51
  /\ returned.estimatedDuration = 2000

\* C20: getOptimalConfig(n) is the default config with (batchSize,
\* concurrentBatches) = (n, 1) for n <= 10, (10, 2) for 10 < n <= 100, (50, 3)
\* for 100 < n <= 1000 and (100, 5) for n > 1000; every other field keeps its
\* default.
C20_OptimalConfigBrackets ==
  (caller = "getOptimalConfig" /\ pc = "done") =>
    LET n == argument.itemCount IN
    /\ n <= 10 => (returned.batchSize = n /\ returned.concurrentBatches = 1)
    /\ (10 < n /\ n <= 100) => (returned.batchSize = 10 /\ returned.concurrentBatches = 2)
    /\ (100 < n /\ n <= 1000) => (returned.batchSize = 50 /\ returned.concurrentBatches = 3)
    /\ n > 1000 => (returned.batchSize = 100 /\ returned.concurrentBatches = 5)
    /\ returned.retryAttempts = 3 /\ returned.retryDelay = 1000
    /\ returned.continueOnError = TRUE /\ returned.dryRun = FALSE
    /\ DOMAIN returned = ConfigFields

\* the last item count of the third bracket
C20_Witness ==
  /\ caller = "getOptimalConfig" /\ pc = "done"
  /\ argument.itemCount = 1000
  /\ returned.batchSize = 50 /\ returned.concurrentBatches = 3

(***************************************************************************)
(* C21: a callback that removeProgressCallback or clearProgressCallbacks   *)
(* removed, and that was not registered again since, is not called by a    *)
(* later processBatch, whatever trackProgress and removeProgressCallback   *)
(* calls came before, the callback registered more than once included.     *)
(***************************************************************************)
C21_RemovedCallbackIsNotInvoked ==
  \A k \in DOMAIN notifications : notifications[k].callback \notin unsubscribed

\* equality of two numbers; NaN equals no number
SameValue(a, b) == a # NaN /\ b # NaN /\ a = b

\* the progress objects delivered to the subscriber at position k of the list
DeliveredTo(k) ==
  LET n == Len(progressCallbacks)
  IN SelectSeq([j \in 1..Len(notifications) |->
                  [at |-> ((j - 1) % n) + 1, progress |-> notifications[j].progress]],
               LAMBDA d : d.at = k)

\* every round of notifications calls the subscribers in registration order
InRegistrationOrder ==
  LET n == Len(progressCallbacks)
  IN \A j \in 1..Len(notifications) :
       notifications[j].callback = progressCallbacks[((j - 1) % n) + 1]

\* the last progress a subscriber received carries the counts of the result
LastDeliveryMatchesResult(k) ==
  LET ds == DeliveredTo(k)
      last == ds[Len(ds)].progress
  IN /\ Len(ds) >= 1
     /\ last.total = result.total
     /\ last.completed = result.successful
     /\ last.failed = result.failed
     /\ (result.successful = result.total =>
           /\ SameValue(last.percentage, 100)
           /\ last.successRate = 100)

(***************************************************************************)
(* C22: when processBatch returns a result, every subscriber was notified  *)
(* at least once, the subscribers were called in registration order, and   *)
(* the last progress each one received has total, completed and failed     *)
(* equal to the result's total, successful and failed, with percentage and *)
(* successRate 100 when every item succeeded.                              *)
(***************************************************************************)
C22_LastNotificationCarriesResult ==
  (pc = "done" /\ entry = "processBatch" /\ status = "returned") =>
    /\ InRegistrationOrder
    /\ \A k \in 1..Len(progressCallbacks) : LastDeliveryMatchesResult(k)

(***************************************************************************)
(* C23: in every progress notification of a run on at least one item, the  *)
(* initial one, the final one and the one of the all-failed path,          *)
(* percentage is round(completed / total * 100) and successRate has the    *)
(* value of percentage.                                                    *)
(***************************************************************************)
C23_PercentageIsRoundedCompletedShare ==
  \A k \in DOMAIN notifications :
    LET p == notifications[k].progress
    IN p.total > 0 =>
         /\ p.percentage = RoundPercent(p.completed, p.total)
         /\ p.successRate = p.percentage

(***************************************************************************)
(* C24: every progress object delivered to a subscriber has completed >= 0,*)
(* failed >= 0, completed + failed <= total, and totalBatches equal to     *)
(* ceil(total / batchSize): the least number of batches of batchSize items *)
(* that hold total items.                                                  *)
(***************************************************************************)
C24_DeliveredProgressIsConsistent ==
  \A k \in DOMAIN notifications :
    LET p == notifications[k].progress
        b == fullConfig.batchSize
    IN /\ p.completed >= 0
       /\ p.failed >= 0
       /\ p.completed + p.failed <= p.total
       /\ p.totalBatches * b >= p.total
       /\ (p.totalBatches - 1) * b < p.total

\* a run of two batches ended with one item completed and one failed, and the
\* subscriber received that progress
C24_Witness ==
  /\ pc = "done"
  /\ \E k \in DOMAIN notifications :
       LET p == notifications[k].progress
       IN p.total = 2 /\ p.completed = 1 /\ p.failed = 1 /\ p.totalBatches = 2

FromFastPath ==
  /\ caller \in {"bulkUpdate", "bulkDelete"}
  /\ \/ resources = <<>>
     \/ caller = "bulkUpdate" /\ IsDryRun(argument.config)

ThrownStartsWith(text) == status = "thrown" /\ Len(thrown) >= 1 /\ thrown[1] = text

\* getResources was not called and nothing was done to any resource
NothingFetched ==
  /\ pc = "done"
  /\ resources = <<>>
  /\ entry = "none"
  /\ started = <<>>
  /\ returned = NoValue

(***************************************************************************)
(* C26: bulkUpdate and dryRun fail fast. When validateFilter reports the   *)
(* filter invalid, the call throws 'Invalid filter: ' followed by the      *)
(* filter's errors, whatever validateUpdates reports, and getResources and *)
(* updateResource are never called. When the filter is valid and           *)
(* validateUpdates reports the updates invalid, the call throws 'Invalid   *)
(* updates: ' followed by their errors before getResources is called. When *)
(* both are valid, warnings or not, neither error is thrown.               *)
(***************************************************************************)
C26_InvalidInputFailsFast ==
  (caller \in {"bulkUpdate", "dryRun"} /\ pc # "called") =>
    LET f == argument.filterValidation
        u == argument.updatesValidation
    IN /\ ~f.isValid =>
            /\ status = "thrown"
            /\ thrown = <<"Invalid filter: ">> \o Join(f.errors)
            /\ NothingFetched
       /\ (f.isValid /\ ~u.isValid) =>
            /\ status = "thrown"
            /\ thrown = <<"Invalid updates: ">> \o Join(u.errors)
            /\ NothingFetched
       /\ (f.isValid /\ u.isValid) =>
            /\ ~ThrownStartsWith("Invalid filter: ")
            /\ ~ThrownStartsWith("Invalid updates: ")

\* bulkUpdate was called with a filter and updates that are both invalid: the
\* filter's errors were thrown
C26_Witness ==
  /\ caller = "bulkUpdate"
  /\ ~argument.filterValidation.isValid
  /\ ~argument.updatesValidation.isValid
  /\ ThrownStartsWith("Invalid filter: ")
  /\ NothingFetched

RECURSIVE CallsUpTo(_)
\* number of operation invocations on the first n items
CallsUpTo(n) == IF n = 0 THEN 0 ELSE Calls(n) + CallsUpTo(n - 1)

\* the rounds in which some operation was invoked
RoundsRun == UNION {Range(started[x]) : x \in DOMAIN started}

\* processBatch ended the only two ways it can
Ended == pc = "done" /\ status \in {"returned", "thrown"}

EveryItemFailedEveryRound ==
  /\ items # <<>>
  /\ \A x \in DOMAIN hist :
       /\ Len(hist[x]) = fullConfig.retryAttempts + 1
       /\ \A k \in 1..Len(hist[x]) : ~hist[x][k]

\* the failed list of the BatchProcessor call: processWithRetry's, or process's
FinalFailed == IF inRetry THEN allFailed ELSE failed

\* the failure text captured last: that of the last entry of the failed list
LastFailureText == ErrorMessage(lastValue[FinalFailed[Len(FinalFailed)].item])

(***************************************************************************)
(* C28: with continueOnError = false, a valid config with any              *)
(* retryAttempts >= 0 and at least one item, when every item fails in      *)
(* every round the error processBatch throws has the failure text captured *)
(* last as its message.                                                    *)
(***************************************************************************)
C28_TotalFailureCarriesLastText ==
  (/\ pc = "done"
   /\ entry = "processBatch"
   /\ ConfigIsValid
   /\ ~fullConfig.continueOnError
   /\ EveryItemFailedEveryRound) =>
    /\ status = "thrown"
    /\ thrown = <<LastFailureText>>

\* the items of the batches whose indices are in ks
ItemsOf(ks) == UNION {Range(batches[k]) : k \in ks}

\* the operation was invoked on the item in the running round
DispatchedThisRound(x) == \E k \in DOMAIN started[x] : started[x][k] = attempt

\* the window the loop of process is at
CurrentWindow == WindowOf(Len(batches), i, concurrency)

(***************************************************************************)
(* C29: process takes the batches in input order in windows of             *)
(* concurrency consecutive batches. While a window is awaited, every item  *)
(* of every batch of the window has been dispatched, no item of a later    *)
(* window has, and every item of the earlier windows has settled; between  *)
(* two windows nothing is in flight. When all the batches of a full window *)
(* have been dispatched and none of their operations has settled, exactly  *)
(* batchSize * concurrency operations are in flight.                       *)
(***************************************************************************)
C29_WindowsAreBarriers ==
  (pc \in {"processLoop", "await"}) =>
    LET nb == Len(batches)
        earlier == 1..Min(i, nb)
        current == IF pc = "await" THEN CurrentWindow ELSE {}
        later == (Min(i, nb) + Cardinality(current) + 1)..nb
    IN /\ i % concurrency = 0
       /\ pc = "await" => current = {k \in 1..nb : i < k /\ k <= i + concurrency}
       /\ \A x \in ItemsOf(earlier) : DispatchedThisRound(x) /\ x \notin inflight
       /\ \A x \in ItemsOf(current) : DispatchedThisRound(x)
       /\ \A x \in ItemsOf(later) : ~DispatchedThisRound(x) /\ x \notin inflight
       /\ inflight \subseteq ItemsOf(current)
       /\ (/\ pc = "await"
           /\ Cardinality(current) = concurrency
           /\ \A k \in current : Len(batches[k]) = batchSize
           /\ \A k \in current : batchSuccessful[k] = <<>> /\ batchFailed[k] = <<>>) =>
            Cardinality(inflight) = batchSize * concurrency

\* a full window of two batches is in flight, nothing of it has settled, and a
\* later window waits
C29_Witness ==
  /\ pc = "await"
  /\ concurrency = 2
  /\ Cardinality(CurrentWindow) = concurrency
  /\ Cardinality(inflight) = batchSize * concurrency
  /\ Len(batches) > i + concurrency
  /\ \A x \in ItemsOf((i + concurrency + 1)..Len(batches)) : ~DispatchedThisRound(x)

\* the operation on x has settled for the last time, with the given outcome:
\* a resolved operation is not invoked again, a rejected one is not invoked
\* again once the last round runs
SettledForGood(x, ok) ==
  /\ x \in DOMAIN hist
  /\ hist[x] # <<>>
  /\ Unsettled(x) = 0
  /\ hist[x][Len(hist[x])] = ok
  /\ \/ ok
     \/ ~inRetry
     \/ attempt = retries /\ started[x][Len(started[x])] = attempt

\* x has settled for good while the operation on y is still in flight
SettledBefore(x, y, ok) == SettledForGood(x, ok) /\ y \in inflight

\* the items of the returned failed list
ReturnedFailedItems == [k \in 1..Len(bpResult.failed) |-> bpResult.failed[k].item]

\* when both items are in the returned list, x stands before y
StandsBefore(list, x, y) ==
  (pc = "done" /\ bpStatus = "returned" /\ x \in Range(list) /\ y \in Range(list)) =>
    IndexOf(list, x) < IndexOf(list, y)

(***************************************************************************)
(* C30: the successful and the failed list returned by process and         *)
(* processWithRetry are ordered by settlement time: of two items of the    *)
(* same returned list, the one whose operation settled earlier stands      *)
(* first, also when the two belong to different batches of one window.     *)
(***************************************************************************)
C30_ListsInSettlementOrder ==
  \A x, y \in 1..MaxOrderItems :
    /\ [](SettledBefore(x, y, TRUE) => [](StandsBefore(bpResult.successful, x, y)))
    /\ [](SettledBefore(x, y, FALSE) => [](StandsBefore(ReturnedFailedItems, x, y)))

(***************************************************************************)
(* C31: config validation comes before the fast paths.  A bulkUpdate or    *)
(* processBatch run whose configuration validateBulkConfig rejects ends by *)
(* throwing the configuration error, also when no resource matched or      *)
(* dryRun is true, and a returned 'no-op' or 'dry-run' Result belongs to a *)
(* run with a valid configuration.                                         *)
(***************************************************************************)
\* the configuration the run was started with, defaults applied
StartedConfig ==
  IF caller = "bulkUpdate" THEN ApplyDefaults(argument.config) ELSE fullConfig

\* a finished bulkUpdate whose inputs were valid and whose getResources resolved,
\* or a finished processBatch called directly
RanPastInputChecks ==
  /\ pc = "done"
  /\ \/ caller = "none" /\ entry = "processBatch"
     \/ /\ caller = "bulkUpdate"
        /\ argument.filterValidation.isValid
        /\ argument.updatesValidation.isValid
        /\ argument.found.ok

C31_ConfigValidatedBeforeFastPaths ==
  RanPastInputChecks =>
    LET v == validateBulkConfig(StartedConfig)
    IN /\ ~v.isValid =>
            status = "thrown" /\ thrown = InvalidConfigurationMessage(v.errors)
       /\ (status = "returned" /\ result.operationId \in {"no-op", "dry-run"}) => v.isValid

(***************************************************************************)
(* C32: progress is updated and every subscriber notified after every      *)
(* settlement.  In a processBatch run, from one notification a subscriber  *)
(* receives to the next, completed + failed grows by at most one batch,    *)
(* and when the run has ended the last notification of each subscriber has *)
(* currentBatch = totalBatches.                                            *)
(***************************************************************************)
\* the progress objects delivered to a callback, in order
ProgressSeenBy(cb) ==
  LET mine == SelectSeq(notifications, LAMBDA d : d.callback = cb)
  IN [k \in 1..Len(mine) |-> mine[k].progress]

SettledIn(p) == p.completed + p.failed

C32_NotifiedAfterEverySettlement ==
  entry = "processBatch" =>
    \A cb \in Range(progressCallbacks) :
      LET seen == ProgressSeenBy(cb)
      IN /\ \A k \in 1..(Len(seen) - 1) :
              SettledIn(seen[k + 1]) - SettledIn(seen[k]) <= fullConfig.batchSize
         /\ (status # "none" /\ Len(seen) > 0) =>
              seen[Len(seen)].currentBatch = seen[Len(seen)].totalBatches

\* every call made on the instance has completed, and there was one
AllCallsCompleted ==
  /\ Len(typeCalls) > 0
  /\ \A c \in DOMAIN typeCalls : typeCalls[c].at = "done"

(***************************************************************************)
(* C33: once every bulkUpdateByType and bulkUpdate call made on a          *)
(* GenericBulkOperations instance has completed, by returning or by        *)
(* throwing, getResourceType() returns the type the instance had before    *)
(* the calls, also when the calls overlapped in time.                      *)
(***************************************************************************)
C33_ResourceTypeIsRestored ==
  AllCallsCompleted => resourceType = ConstructedType

(***************************************************************************)
(* C34: in every Result processBatch returns, each entry of errors pairs   *)
(* an item with the failure text captured from the last invocation of the  *)
(* operation on that same item, and that invocation failed: on a partial   *)
(* failure as on a total one, with or without retry rounds.                *)
(***************************************************************************)
C34_ErrorsPairItemWithOwnFailure ==
  (pc = "done" /\ entry = "processBatch" /\ status = "returned") =>
    \A k \in DOMAIN result.errors :
      LET e == result.errors[k]
      IN /\ LastFailed(e.item)
         /\ e.error = CapturedText(lastValue[e.item])

(***************************************************************************)
(* C35: every processBatch run whose configuration is valid has, when it   *)
(* returns or throws, delivered to each registered subscriber a last       *)
(* progress notification in which completed + failed = total, also when    *)
(* the run throws because continueOnError is false.                        *)
(***************************************************************************)
C35_FinalNotificationBeforeEnd ==
  (pc = "done" /\ entry = "processBatch" /\ ConfigIsValid) =>
    \A cb \in Range(progressCallbacks) :
      LET seen == ProgressSeenBy(cb)
      IN /\ Len(seen) > 0
         /\ SettledIn(seen[Len(seen)]) = seen[Len(seen)].total

\* number of times the callback was called in the notification
TimesInvoked(cb) == Len(SelectSeq(notifications, LAMBDA d : d.callback = cb))

(***************************************************************************)
(* C36: subscriber-list re-entrancy.  Whatever registration calls the      *)
(* callbacks make while they are notified, a callback that was registered  *)
(* when the notification started and was not removed during it is never    *)
(* invoked more than once in it, and has been invoked exactly once when    *)
(* the notification has ended.                                             *)
(***************************************************************************)
C36_RegisteredCallbackInvokedOnce ==
  \A cb \in Range(atStart) \ unsubscribed :
    /\ TimesInvoked(cb) <= 1
    /\ pc = "notified" => TimesInvoked(cb) = 1

(***************************************************************************)
(* C37: for every itemCount >= 0 the config getOptimalConfig(itemCount)    *)
(* returns is accepted by validateBulkConfig, so that processBatch called  *)
(* with it does not throw a configuration error.                           *)
(***************************************************************************)
C37_OptimalConfigIsValid ==
  (caller = "getOptimalConfig" /\ pc = "done" /\ argument.itemCount >= 0) =>
    validateBulkConfig(returned).isValid

(***************************************************************************)
(* C38: processWithRetry accounts for every item whatever integer retries  *)
(* is.  Whenever a call on a non-empty list returns, the operation was     *)
(* invoked at least once on each item and the returned successful and      *)
(* failed lists together have as many entries as the list has items.       *)
(***************************************************************************)
C38_RetryAccountsForEveryItem ==
  (pc = "done" /\ entry = "processWithRetry" /\ bpStatus = "returned" /\ Len(items) > 0) =>
    /\ \A x \in DOMAIN items : Calls(x) >= 1
    /\ Len(bpResult.successful) + Len(bpResult.failed) = Len(items)

\* the operation was invoked exactly once on each item, and no backoff delay
\* was slept
OncePerItemNoDelay ==
  /\ \A x \in DOMAIN items : Calls(x) = 1
  /\ delays = <<>>

\* the call returned the lists its process call built
ReturnedWhatProcessBuilt ==
  /\ bpStatus = "returned"
  /\ bpResult.successful = successful
  /\ bpResult.failed = failed

\* every item of a non-empty list failed in the process call
ProcessFailedEveryItem == Len(items) > 0 /\ Len(failed) = Len(items)

\* the text of the last entry of the failed list, 'All items failed' if empty
TextOfLastFailed ==
  IF failed[Len(failed)].error = "" THEN "All items failed" ELSE failed[Len(failed)].error

(***************************************************************************)
(* C39: processWithRetry with retries = 0 is observationally equivalent to *)
(* process.  Both invoke the operation exactly once per item without any   *)
(* backoff delay, and both end by returning the successful and failed      *)
(* lists that the one process call built.                                  *)
(***************************************************************************)
C39_ZeroRetriesEqualsProcess ==
  (pc = "done" /\ (entry = "process" \/ (entry = "processWithRetry" /\ retries = 0))) =>
    /\ OncePerItemNoDelay
    /\ ReturnedWhatProcessBuilt

(***************************************************************************)
(* C39, amended: processWithRetry with retries = 0 and process invoke the  *)
(* operation exactly once per item without any backoff delay.  process     *)
(* always returns the lists it built; processWithRetry returns the same    *)
(* lists unless every item of a non-empty list failed, in which case it    *)
(* throws an Error with the text of the last failed entry, or 'All items   *)
(* failed' when that text is empty.                                        *)
(***************************************************************************)
C39_ZeroRetriesEqualsProcessUnlessAllFailed ==
  /\ (pc = "done" /\ entry = "process") =>
       OncePerItemNoDelay /\ ReturnedWhatProcessBuilt
  /\ (pc = "done" /\ entry = "processWithRetry" /\ retries = 0) =>
       /\ OncePerItemNoDelay
       /\ IF ProcessFailedEveryItem
          THEN bpStatus = "thrown" /\ bpError = TextOfLastFailed
          ELSE ReturnedWhatProcessBuilt

\* two items in two batches that both failed in the only round: process would
\* return them as failed, processWithRetry threw
C39_Witness ==
  /\ pc = "done" /\ entry = "processWithRetry" /\ retries = 0
  /\ Len(items) = 2 /\ Len(batches) = 2
  /\ Len(failed) = 2
  /\ bpStatus = "thrown"

====
